---------------------------- MODULE Spec2Model ----------------------------
(***************************************************************************)
(* SubSnap: streaming frame extraction, the bounded channel, the batch     *)
(* accumulator, the GPU conversion engine with its pooled wrapper, the     *)
(* CPU converters, the frame buffer pool and the MP4 bitstream converter.  *)
(*                                                                         *)
(* Frame payloads are abstracted to their length: a frame is a record      *)
(* [id, width, height, len, format] where len is data.len() and id names   *)
(* the content, so that a result can be traced back to its input frame.    *)
(***************************************************************************)
EXTENDS Integers, Sequences, FiniteSets, TLC

VARIABLES
    engine,     \* GpuImageProcessor: capacity, cached_size, buffer sizes, allocation count
    engCall,    \* the last convert_yuv420p_to_rgb call on the engine and its outcome
    engCalls,   \* number of calls made on the engine
    engPlan,    \* the caller's plan: longest batch and number of calls it makes
    convFrame,  \* the frame last handed to a single-frame converter
    convOut,    \* which converter ran on it and what it returned
    scaler,     \* FfmpegConverter.scaler: None, or the (width, height, format) it was made for
    converter,  \* the converter instance in use
    pool,       \* WgpuBatchPool: processor, frame_buffer, batch_size, time since last_batch_time
    lock,       \* holder of the global pool's Mutex, 0 when free
    callers,    \* per WgpuBatchConverter: where it is in convert, its frame, its last result
    cfg,        \* run_single_mode: the input file, --frames, --fps, the mode, the channel capacity
    producer,   \* the extraction task: its position, its decoder, frame_count, its result
    chan,       \* the frames queued in the bounded mpsc channel
    consumer,   \* process_frame_with_mode: its position, frame_batch, processed_count, its result
    out,        \* the frames converted (and saved, with an output directory), in order
    obs,        \* counts kept about the run: packets fed, sends that succeeded and failed
    framePool,  \* FrameDataPool: the ring of buffers and current_index
    buffer,     \* the last acquisition from the ring: the size asked for and the Vec handed out
    bsf,        \* Mp4BitstreamConverter: length_size, the header units, new_idr, sps_seen, pps_seen
    packetCall  \* convert_packet: its position, the rest of the packet, out, and all it has written

engineVars == <<engine, engCall, engCalls, engPlan>>

convVars == <<convFrame, convOut, scaler, converter>>

poolVars == <<pool, lock, callers>>

pipeVars == <<cfg, producer, chan, consumer, out, obs>>

framePoolVars == <<framePool, buffer>>

bitstreamVars == <<bsf, packetCall>>

notPool == <<engineVars, convVars, pipeVars, framePoolVars, bitstreamVars>>

notEngine == <<convVars, poolVars, pipeVars, framePoolVars, bitstreamVars>>

notConv == <<engineVars, poolVars, pipeVars, framePoolVars, bitstreamVars>>

notPipe == <<engineVars, convVars, poolVars, framePoolVars, bitstreamVars>>

notFramePool == <<engineVars, convVars, poolVars, pipeVars, bitstreamVars>>

notBitstream == <<engineVars, convVars, poolVars, pipeVars, framePoolVars>>

vars == <<engine, engCall, engCalls, engPlan, convFrame, convOut, scaler, converter,
          pool, lock, callers, cfg, producer, chan, consumer, out, obs, framePool, buffer,
          bsf, packetCall>>

-----------------------------------------------------------------------------
(* Bounds of the model *)

\* longest batch handed to the GPU engine in one call
MaxBatch == 12

\* largest width and height of the frames handed to the single-frame converters
MaxDim == 3

\* converters sharing the global pool, and convert calls each of them makes
MaxCallers == 2

MaxConverts == 2

\* max_wait_time of a pool, in clock ticks
MaxWaitTicks == 1

\* number of consecutive convert calls made on one engine, and the longest
\* batch of such a sequence of calls
MaxCalls == 2

MaxReuseBatch == 3

\* largest capacity of the channel between the extraction and the conversion task
MaxCapacity == 2

\* most slots of a frame pool, and the acquisitions made from one pool
MaxSlots == 3

MaxAcquisitions == 7

\* most NAL units handed to one Mp4BitstreamConverter, over all its packets
MaxNals == 4

-----------------------------------------------------------------------------
(* Program constants *)

GPU_BUFFER_LIMIT == 134217728

\* batch size of the global pool, and the default of a local one
GlobalBatchSize == 8

\* frames the GPU mode of process_frame_with_mode gathers before it converts
TARGET_BATCH_SIZE == 64

\* Option::None of a tuple-valued field
None == <<>>

YUV420P == "YUV420P"

-----------------------------------------------------------------------------
(* Small helpers *)

Min(a, b) == IF a <= b THEN a ELSE b

Max(a, b) == IF a >= b THEN a ELSE b

\* the byte counts below are u32/usize products in the source; every frame size
\* the specifications draw keeps them below 2^31, so no product wraps
-----------------------------------------------------------------------------
(* GpuImageProcessor (converters/wgpu_converter.rs) *)

\* a freshly constructed engine: no buffers, capacity 0
NewEngine ==
    [capacity |-> 0, cached_size |-> None, read_size |-> 0, allocs |-> 0]

\* y_size + 2 * uv_size of process_batch
FrameYuvSize(width, height) ==
    LET y_size == (width * height)
        uv_size == y_size \div 4
    IN  y_size + 2 * uv_size

\* create_buffers: five buffers sized for (batch_size, width, height)
CreateBuffers(eng, batch_size, width, height) ==
    [eng EXCEPT !.capacity = batch_size,
                !.cached_size = <<width, height>>,
                !.read_size = (width * height * 4 * batch_size),
                !.allocs = eng.allocs + 1]

\* an engine that reallocates for every batch
NeedNewBuffersAlways(eng, batch_size, width, height) == TRUE

\* need_new_buffers of process_batch
NeedNewBuffers(eng, batch_size, width, height) ==
    eng.capacity < batch_size \/ eng.cached_size # <<width, height>>

\* an unpack loop that keeps the alpha byte of every RGBA word
UnpackedLenRgba(frame_idx, width, height, read_size) ==
    LET pixels == (width * height)
        frame_offset == frame_idx * (width * height * 4)
        room == read_size - frame_offset
    IN  4 * Min(pixels, Max(0, room \div 4))

\* number of RGB bytes unpacked for frame frame_idx (0-based) of a batch: a
\* pixel is unpacked only while its RGBA word lies inside the mapped staging buffer
UnpackedLen(frame_idx, width, height, read_size) ==
    LET pixels == (width * height)
        frame_offset == frame_idx * (width * height * 4)
        room == read_size - frame_offset
    IN  3 * Min(pixels, Max(0, room \div 4))

\* process_batch on one (sub-)batch; gpuFails: the readback of this dispatch fails
ProcessBatch(eng, frames, gpuFails) ==
    LET first_width == frames[1].width
        first_height == frames[1].height
        batch_size == Len(frames)
        same == \A i \in 1..batch_size :
                    frames[i].width = first_width /\ frames[i].height = first_height
        longEnough == \A i \in 1..batch_size :
                    frames[i].len >= FrameYuvSize(first_width, first_height)
        eng2 == IF NeedNewBuffers(eng, batch_size, first_width, first_height)
                THEN CreateBuffers(eng, batch_size, first_width, first_height)
                ELSE eng
    IN  IF ~same
        THEN [eng |-> eng, status |-> "err_size_mismatch", results |-> <<>>, dispatched |-> FALSE]
        ELSE IF ~longEnough
        THEN [eng |-> eng, status |-> "err_short_data", results |-> <<>>, dispatched |-> FALSE]
        ELSE IF gpuFails
        THEN [eng |-> eng2, status |-> "err_gpu", results |-> <<>>, dispatched |-> TRUE]
        ELSE [eng |-> eng2, status |-> "ok",
              results |-> [i \in 1..batch_size |->
                              [src |-> frames[i].id,
                               len |-> UnpackedLen(i - 1, first_width, first_height,
                                                   eng2.read_size)]],
              dispatched |-> TRUE]

\* frame_output_size of convert_yuv420p_to_rgb
FrameOutputSize(width, height) == (width * height * 4)

\* max_single_batch: ((GPU_BUFFER_LIMIT / frame_output_size) as f32 * 0.9) as usize.
\* The u64 quotient q is truncated first; for q < 2^24 the f32 product rounds to
\* the integer 9q/10 when that is one, and otherwise truncates to floor(9q/10).
MaxSingleBatch(width, height) ==
    (9 * (GPU_BUFFER_LIMIT \div FrameOutputSize(width, height))) \div 10

\* a count that forgets the last, shorter sub-batch
SubBatchesFloor(total_frames, max_single_batch) ==
    total_frames \div max_single_batch

\* sub_batches of convert_yuv420p_to_rgb
SubBatches(total_frames, max_single_batch) ==
    (total_frames + max_single_batch - 1) \div max_single_batch

\* a loop that puts the results of each sub-batch in front of those collected so far
RECURSIVE SubBatchLoopPrepend(_, _, _, _, _, _)
SubBatchLoopPrepend(acc, frames, max_single_batch, sub_batches, batch_idx, failAt) ==
    IF batch_idx >= sub_batches
    THEN [acc EXCEPT !.status = "ok"]
    ELSE LET start_frame == batch_idx * max_single_batch
             end_frame == Min((batch_idx + 1) * max_single_batch, Len(frames))
             sub_batch_data == SubSeq(frames, start_frame + 1, end_frame)
             r == ProcessBatch(acc.eng, sub_batch_data, failAt = batch_idx + 1)
             log == Append(acc.subs, [start |-> start_frame, size |-> Len(sub_batch_data),
                                      dispatched |-> r.dispatched])
         IN  IF r.status # "ok"
             THEN [eng |-> r.eng, status |-> r.status, results |-> <<>>, subs |-> log]
             ELSE SubBatchLoopPrepend([eng |-> r.eng, status |-> "running",
                                       results |-> r.results \o acc.results, subs |-> log],
                                      frames, max_single_batch, sub_batches, batch_idx + 1,
                                      failAt)

\* a loop that hands back the results collected so far when a sub-batch fails
RECURSIVE SubBatchLoopPartial(_, _, _, _, _, _)
SubBatchLoopPartial(acc, frames, max_single_batch, sub_batches, batch_idx, failAt) ==
    IF batch_idx >= sub_batches
    THEN [acc EXCEPT !.status = "ok"]
    ELSE LET start_frame == batch_idx * max_single_batch
             end_frame == Min((batch_idx + 1) * max_single_batch, Len(frames))
             sub_batch_data == SubSeq(frames, start_frame + 1, end_frame)
             r == ProcessBatch(acc.eng, sub_batch_data, failAt = batch_idx + 1)
             log == Append(acc.subs, [start |-> start_frame, size |-> Len(sub_batch_data),
                                      dispatched |-> r.dispatched])
         IN  IF r.status # "ok"
             THEN [eng |-> r.eng, status |-> r.status, results |-> acc.results,
                   subs |-> log]
             ELSE SubBatchLoopPartial([eng |-> r.eng, status |-> "running",
                                       results |-> acc.results \o r.results, subs |-> log],
                                      frames, max_single_batch, sub_batches, batch_idx + 1,
                                      failAt)

\* the sub-batch loop of convert_yuv420p_to_rgb from sub-batch batch_idx on;
\* acc carries the engine, all_results and the log of sub-batches processed
RECURSIVE SubBatchLoop(_, _, _, _, _, _)
SubBatchLoop(acc, frames, max_single_batch, sub_batches, batch_idx, failAt) ==
    IF batch_idx >= sub_batches
    THEN [acc EXCEPT !.status = "ok"]
    ELSE LET start_frame == batch_idx * max_single_batch
             end_frame == Min((batch_idx + 1) * max_single_batch, Len(frames))
             sub_batch_data == SubSeq(frames, start_frame + 1, end_frame)
             r == ProcessBatch(acc.eng, sub_batch_data, failAt = batch_idx + 1)
             log == Append(acc.subs, [start |-> start_frame, size |-> Len(sub_batch_data),
                                      dispatched |-> r.dispatched])
         IN  IF r.status # "ok"
             THEN [eng |-> r.eng, status |-> r.status, results |-> <<>>, subs |-> log]
             ELSE SubBatchLoop([eng |-> r.eng, status |-> "running",
                                results |-> acc.results \o r.results, subs |-> log],
                               frames, max_single_batch, sub_batches, batch_idx + 1, failAt)

\* convert_yuv420p_to_rgb; failAt names the sub-batch (1-based) whose readback
\* fails, 0 when the device works throughout
ConvertYuv420pToRgb(eng, frames, failAt) ==
    IF Len(frames) = 0
    THEN [eng |-> eng, status |-> "ok", results |-> <<>>, subs |-> <<>>]
    ELSE LET width == frames[1].width
             height == frames[1].height
             total_frames == Len(frames)
         IN  IF FrameOutputSize(width, height) = 0
             THEN [eng |-> eng, status |-> "panic", results |-> <<>>, subs |-> <<>>]
             ELSE LET max_single_batch == MaxSingleBatch(width, height)
                  IN  IF total_frames <= max_single_batch
                      THEN LET r == ProcessBatch(eng, frames, failAt = 1)
                           IN  [eng |-> r.eng, status |-> r.status, results |-> r.results,
                                subs |-> <<[start |-> 0, size |-> total_frames,
                                            dispatched |-> r.dispatched]>>]
                      ELSE IF max_single_batch = 0
                      THEN [eng |-> eng, status |-> "panic", results |-> <<>>, subs |-> <<>>]
                      ELSE SubBatchLoop([eng |-> eng, status |-> "running",
                                         results |-> <<>>, subs |-> <<>>],
                                        frames, max_single_batch,
                                        SubBatches(total_frames, max_single_batch),
                                        0, failAt)

-----------------------------------------------------------------------------
(* Frames *)

NoFrame == [id |-> 0, width |-> 0, height |-> 0, len |-> 0, format |-> "none"]

\* frame sizes: max_single_batch is 0, 2, 5 and 98 for these
Res8K == <<7680, 4320>>

ResDci4K == <<4096, 2160>>

Res5M == <<2560, 2048>>

ResVga == <<640, 480>>

\* a frame whose RGBA size alone is above GPU_BUFFER_LIMIT
ResFull8K == <<8192, 4320>>

EngineRes == {Res8K, ResDci4K, Res5M}

\* a frame of size res carrying exactly the bytes the 4:2:0 layout needs
GoodFrame(id, res) ==
    [id |-> id, width |-> res[1], height |-> res[2],
     len |-> FrameYuvSize(res[1], res[2]), format |-> YUV420P]

\* the same frame one byte short
ShortFrame(id, res) ==
    [GoodFrame(id, res) EXCEPT !.len = FrameYuvSize(res[1], res[2]) - 1]

-----------------------------------------------------------------------------
(* The parts of the program a specification leaves unused *)

\* the per-call record of a converter that is not inside convert
IdleCaller ==
    [pc |-> "idle", frame |-> NoFrame, calls |-> 0, status |-> "none", src |-> 0,
     device |-> TRUE, via |-> "none"]

NoOut == [converter |-> "none", status |-> "none", len |-> 0]

\* the shape recorded before any call was made
NoShape == [n |-> 0, res |-> <<0, 0>>, odd |-> 0, kind |-> "no_call"]

NoCall == [shape |-> NoShape, failAt |-> 0, status |-> "no_call", results |-> <<>>,
           subs |-> <<>>, allocsBefore |-> 0, cachedBefore |-> None,
           prevTriple |-> None, prevKind |-> "no_call", prevStatus |-> "no_call"]

\* no engine is driven directly
EngineIdle ==
    /\ engine = NewEngine
    /\ engCall = NoCall
    /\ engCalls = 0
    /\ engPlan = [maxN |-> 0, calls |-> 0]

\* no single-frame converter exists
ConvIdle ==
    /\ convFrame = NoFrame
    /\ convOut = NoOut
    /\ scaler = None
    /\ converter = "none"

\* no pool exists
PoolIdle ==
    /\ pool = [processor |-> FALSE, eng |-> NewEngine, frame_buffer |-> <<>>,
               batch_size |-> 0, elapsed |-> 0, waited |-> 0,
               use_global_pool |-> FALSE]
    /\ lock = 0
    /\ callers = <<>>

\* Vec::with_capacity(n) and Vec::new(), a Vec<u8> being its len and capacity
VecWithCapacity(n) == [len |-> 0, capacity |-> n]

VecNew == [len |-> 0, capacity |-> 0]

\* FrameDataPool::new(capacity, buffer_size)
FrameDataPoolNew(capacity, buffer_size) ==
    [buffers |-> [i \in 1..capacity |-> VecWithCapacity(buffer_size)],
     current_index |-> 0]

\* nothing acquired yet
NoBuffer ==
    [required_size |-> 0, taken |-> VecNew, got |-> VecNew, frame_data |-> VecNew,
     allocations |-> 0, n |-> 0, path |-> "none"]

\* no frame pool exists
FramePoolIdle ==
    /\ framePool = FrameDataPoolNew(0, 0)
    /\ buffer = NoBuffer

\* Mp4BitstreamConverter::for_mp4_track: the fields taken from the avcC box
\* and the three flags
BitstreamConverterNew(length_size, sps, pps) ==
    [length_size |-> length_size, sps |-> sps, pps |-> pps,
     new_idr |-> TRUE, sps_seen |-> FALSE, pps_seen |-> FALSE]

\* convert_packet has not been called
NoPacketCall ==
    [pc |-> "idle", stream |-> <<>>, out |-> <<>>, nals |-> 0, packets |-> 0,
     annexb |-> <<>>, spun |-> FALSE]

\* no MP4 track is being converted
BitstreamIdle ==
    /\ bsf = BitstreamConverterNew(0, <<>>, <<>>)
    /\ packetCall = NoPacketCall

\* the extraction task before its first step
NewProducer ==
    [pc |-> "start", pkt |-> 1, decoded |-> <<>>, frame_count |-> 0,
     next_extract_time |-> 0, final_output_frames |-> 0, frame_interval |-> 0,
     cur |-> NoFrame, status |-> "running", frames_processed |-> 0]

\* the conversion task before its first step
NewConsumer ==
    [pc |-> "start", frame_batch |-> <<>>, processed_count |-> 0, status |-> "running"]

NoObs ==
    [fed |-> 0, sentOk |-> 0, failedSends |-> 0, fedAtFail |-> 0, countAtFail |-> 0,
     received |-> 0, convertErrs |-> 0, flushes |-> 0, handed |-> 0, lastFlush |-> 0,
     engines |-> 0, bufferSets |-> 0]

\* run_single_mode is not running
PipeIdle ==
    /\ cfg = [producer |-> "none"]
    /\ producer = NewProducer
    /\ chan = <<>>
    /\ consumer = NewConsumer
    /\ out = <<>>
    /\ obs = NoObs

-----------------------------------------------------------------------------
(* WgpuBatchPool and WgpuBatchConverter (converters/wgpu_converter.rs) *)

\* WgpuBatchPool::new: a failed device acquisition leaves processor = None
NewPool(batch_size, gpuUp, global) ==
    [processor |-> gpuUp, eng |-> NewEngine, frame_buffer |-> <<>>,
     batch_size |-> batch_size, elapsed |-> 0, waited |-> 0, use_global_pool |-> global]

\* a process_batch that puts the frames of a failed batch back in frame_buffer
PoolProcessBatchRequeue(p, gpuUp, failAt) ==
    IF Len(p.frame_buffer) = 0
    THEN [pool |-> p, kind |-> "none", results |-> <<>>, device |-> TRUE]
    ELSE LET drained == [p EXCEPT !.frame_buffer = <<>>, !.elapsed = 0, !.waited = 0]
             kept == [p EXCEPT !.elapsed = 0, !.waited = 0]
         IN  IF ~p.processor /\ ~gpuUp
             THEN [pool |-> kept, kind |-> "err_no_device", results |-> <<>>,
                   device |-> FALSE]
             ELSE LET r == ConvertYuv420pToRgb(p.eng, p.frame_buffer, failAt)
                      left == IF r.status = "ok" THEN drained ELSE kept
                  IN  [pool |-> [left EXCEPT !.processor = TRUE, !.eng = r.eng],
                       kind |-> IF r.status = "ok" THEN "some" ELSE r.status,
                       results |-> r.results,
                       device |-> r.status # "err_gpu"]

\* WgpuBatchPool::process_batch. gpuUp: ensure_processor can acquire a device;
\* failAt: the sub-batch whose readback fails (0: none)
PoolProcessBatch(p, gpuUp, failAt) ==
    IF Len(p.frame_buffer) = 0
    THEN [pool |-> p, kind |-> "none", results |-> <<>>, device |-> TRUE]
    ELSE LET drained == [p EXCEPT !.frame_buffer = <<>>, !.elapsed = 0, !.waited = 0]
         IN  IF ~p.processor /\ ~gpuUp
             THEN [pool |-> drained, kind |-> "err_no_device", results |-> <<>>,
                   device |-> FALSE]
             ELSE LET r == ConvertYuv420pToRgb(p.eng, p.frame_buffer, failAt)
                  IN  [pool |-> [drained EXCEPT !.processor = TRUE, !.eng = r.eng],
                       kind |-> IF r.status = "ok" THEN "some" ELSE r.status,
                       results |-> r.results,
                       device |-> r.status # "err_gpu"]

\* WgpuBatchPool::add_frame
PoolAddFrame(p, f, gpuUp, failAt) ==
    LET pushed == [p EXCEPT !.frame_buffer = Append(p.frame_buffer, f)]
        should_process == \/ Len(pushed.frame_buffer) >= p.batch_size
                          \/ p.elapsed >= MaxWaitTicks
    IN  IF should_process
        THEN PoolProcessBatch(pushed, gpuUp, failAt)
        ELSE [pool |-> pushed, kind |-> "none", results |-> <<>>, device |-> TRUE]

\* WgpuBatchPool::flush
PoolFlush(p, gpuUp, failAt) ==
    IF Len(p.frame_buffer) = 0
    THEN [pool |-> p, kind |-> "none", results |-> <<>>, device |-> TRUE]
    ELSE PoolProcessBatch(p, gpuUp, failAt)

\* the frames a caller hands to convert: call k of caller c carries id 10*c + k
PoolRes == {ResVga, Res8K}

PoolFrames(c, k) ==
    UNION { {GoodFrame(10 * c + k, res), ShortFrame(10 * c + k, res)} : res \in PoolRes }

\* several converters on the global pool (WgpuBatchPool::new(8, 100))
InitPool ==
    /\ pool \in { NewPool(GlobalBatchSize, gpuUp, TRUE) : gpuUp \in BOOLEAN }
    /\ lock = 0
    /\ callers = [c \in 1..MaxCallers |-> IdleCaller]
    /\ EngineIdle
    /\ ConvIdle
    /\ PipeIdle
    /\ FramePoolIdle
    /\ BitstreamIdle

\* one converter, on the global pool or on a local pool of its own
InitSingle ==
    /\ pool \in { NewPool(GlobalBatchSize, gpuUp, TRUE) : gpuUp \in BOOLEAN }
              \cup { NewPool(bs, gpuUp, FALSE) :
                        bs \in {0, 1, 2, GlobalBatchSize}, gpuUp \in BOOLEAN }
    /\ lock = 0
    /\ callers = [c \in 1..1 |-> IdleCaller]
    /\ EngineIdle
    /\ ConvIdle
    /\ PipeIdle
    /\ FramePoolIdle
    /\ BitstreamIdle

\* convert() is entered: add_frame is about to take the pool
BeginConvert(c) ==
    /\ callers[c].pc = "idle"
    /\ callers[c].calls < MaxConverts
    /\ \E f \in PoolFrames(c, callers[c].calls + 1) :
          callers' = [callers EXCEPT ![c] =
                         [pc |-> IF pool.use_global_pool THEN "add_lock" ELSE "adding",
                          frame |-> f, calls |-> callers[c].calls + 1,
                          status |-> "running", src |-> 0, device |-> TRUE,
                          via |-> "none"]]
    /\ UNCHANGED <<pool, lock, notPool>>

\* pool.lock().await, in add_frame or in flush
AcquireLock(c) ==
    /\ callers[c].pc \in {"add_lock", "flush_lock"}
    /\ lock = 0
    /\ lock' = c
    /\ callers' = [callers EXCEPT ![c].pc =
                      IF callers[c].pc = "add_lock" THEN "adding" ELSE "flushing"]
    /\ UNCHANGED <<pool, notPool>>

\* what convert does with the Result<Option<..>> of add_frame or flush
AfterPoolCall(caller, r, via) ==
    IF r.kind = "some"
    THEN [caller EXCEPT !.pc = "idle", !.status = "ok",
                        !.src = r.results[Len(r.results)].src,
                        !.device = caller.device /\ r.device, !.via = via]
    ELSE IF r.kind = "none"
    THEN IF via = "add"
         THEN [caller EXCEPT !.pc = IF r.pool.use_global_pool
                                    THEN "flush_lock" ELSE "flushing"]
         ELSE [caller EXCEPT !.pc = "idle", !.status = "err_batch_failed", !.via = via]
    ELSE [caller EXCEPT !.pc = "idle", !.status = r.kind,
                        !.device = caller.device /\ r.device, !.via = via]

\* WgpuBatchConverter::add_frame inside convert: the pool call, then the guard drops
ConvertAdd(c) ==
    /\ callers[c].pc = "adding"
    /\ \E gpuUp \in BOOLEAN, failAt \in 0..1 :
          LET r == PoolAddFrame(pool, callers[c].frame, gpuUp, failAt)
          IN  /\ pool' = r.pool
              /\ callers' = [callers EXCEPT ![c] = AfterPoolCall(callers[c], r, "add")]
    /\ lock' = 0
    /\ UNCHANGED notPool

\* WgpuBatchConverter::flush inside convert
ConvertFlush(c) ==
    /\ callers[c].pc = "flushing"
    /\ \E gpuUp \in BOOLEAN, failAt \in 0..1 :
          LET r == PoolFlush(pool, gpuUp, failAt)
          IN  /\ pool' = r.pool
              /\ callers' = [callers EXCEPT ![c] = AfterPoolCall(callers[c], r, "flush")]
    /\ lock' = 0
    /\ UNCHANGED notPool

\* time passes: elapsed is the time since last_batch_time, counted up to
\* max_wait_time, and waited the time the oldest frame of frame_buffer has
\* been there, counted up to one tick past max_wait_time
Tick ==
    /\ \/ pool.elapsed < MaxWaitTicks
       \/ pool.frame_buffer # <<>> /\ pool.waited <= MaxWaitTicks
    /\ pool' = [pool EXCEPT !.elapsed = Min(pool.elapsed + 1, MaxWaitTicks),
                            !.waited = IF pool.frame_buffer = <<>> THEN 0
                                       ELSE pool.waited + 1]
    /\ UNCHANGED <<lock, callers, notPool>>

\* the convert calls of the converters, and the clock
NextPool ==
    \/ \E c \in DOMAIN callers : BeginConvert(c)
    \/ \E c \in DOMAIN callers : AcquireLock(c)
    \/ \E c \in DOMAIN callers : ConvertAdd(c)
    \/ \E c \in DOMAIN callers : ConvertFlush(c)
    \/ Tick

-----------------------------------------------------------------------------
(* The single-frame converters (converters/*_converter.rs) *)

\* the length check shared by the converters: y_size + 2 * uv_size
RequiredLen(width, height) ==
    LET y_size == width * height
        uv_size == y_size \div 4
    IN  y_size + 2 * uv_size

\* ManualConverter's pixel loop reads y_plane[y_idx], u_plane[uv_idx] and
\* v_plane[uv_idx]; an index past the plane panics
ManualIndexInBounds(width, height) ==
    LET y_size == width * height
        uv_size == y_size \div 4
    IN  \A y \in 0..(height - 1) : \A x \in 0..(width - 1) :
            /\ y * width + x < y_size
            /\ (y \div 2) * (width \div 2) + (x \div 2) < uv_size

\* ManualConverter::convert
ManualConvertResult(f) ==
    IF f.format # YUV420P THEN [converter |-> "manual", status |-> "err_format", len |-> 0]
    ELSE IF f.len < RequiredLen(f.width, f.height)
    THEN [converter |-> "manual", status |-> "err_size", len |-> 0]
    ELSE IF ~ManualIndexInBounds(f.width, f.height)
    THEN [converter |-> "manual", status |-> "panic", len |-> 0]
    ELSE [converter |-> "manual", status |-> "ok", len |-> f.width * f.height * 3]

\* YuvutilsConverter::convert; libOk: yuv420_to_rgb accepts the planes
YuvutilsConvertResult(f, libOk) ==
    IF f.format # YUV420P THEN [converter |-> "yuvutils", status |-> "err_format", len |-> 0]
    ELSE IF f.len < RequiredLen(f.width, f.height)
    THEN [converter |-> "yuvutils", status |-> "err_size", len |-> 0]
    ELSE IF ~libOk THEN [converter |-> "yuvutils", status |-> "err_lib", len |-> 0]
    ELSE [converter |-> "yuvutils", status |-> "ok", len |-> f.width * f.height * 3]

\* OpencvConverter::convert; libOk: reshape and cvt_color succeed and return
\* at least width*height*3 bytes
OpencvConvertResult(f, libOk) ==
    IF f.format # YUV420P THEN [converter |-> "opencv", status |-> "err_format", len |-> 0]
    ELSE IF f.len < RequiredLen(f.width, f.height)
    THEN [converter |-> "opencv", status |-> "err_size", len |-> 0]
    ELSE IF ~libOk THEN [converter |-> "opencv", status |-> "err_lib", len |-> 0]
    ELSE [converter |-> "opencv", status |-> "ok", len |-> f.width * f.height * 3]

\* FfmpegConverter::ensure_scaler: the scaler is created once, for the first frame
EnsureScaler(sc, f) ==
    IF sc = None THEN <<f.width, f.height, f.format>> ELSE sc

\* FfmpegConverter::convert after ensure_scaler; libOk: scaler.run succeeds
FfmpegConvertResult(f, libOk) ==
    IF f.format = YUV420P /\ f.len < RequiredLen(f.width, f.height)
    THEN [converter |-> "ffmpeg", status |-> "err_size", len |-> 0]
    ELSE IF ~libOk THEN [converter |-> "ffmpeg", status |-> "err_lib", len |-> 0]
    ELSE [converter |-> "ffmpeg", status |-> "ok", len |-> f.width * f.height * 3]

\* the GPU engine on a batch of this one frame, on a fresh engine; libOk: the
\* device readback succeeds
GpuConvertResult(f, libOk) ==
    LET r == ConvertYuv420pToRgb(NewEngine, <<f>>, IF libOk THEN 0 ELSE 1)
    IN  [converter |-> "gpu", status |-> r.status,
         len |-> IF r.status = "ok" THEN r.results[1].len ELSE 0]

\* WgpuImageProcessor::convert_yuv420p_to_rgb (wgpu_processor.rs) on the bytes
\* of one frame: the staging buffer holds width*height RGBA words, and three
\* bytes are kept of every whole word; libOk: the device readback succeeds
WgpuSingleConvertResult(f, libOk) ==
    LET rgba_size == f.width * f.height * 4
    IN  IF f.len < RequiredLen(f.width, f.height)
        THEN [converter |-> "gpu_single", status |-> "err_short_data", len |-> 0]
        ELSE IF ~libOk THEN [converter |-> "gpu_single", status |-> "err_gpu", len |-> 0]
        ELSE [converter |-> "gpu_single", status |-> "ok", len |-> 3 * (rgba_size \div 4)]

\* WgpuBatchConverter::convert of a converter that is the only user of its
\* pool: add_frame builds a BatchFrameData of (width, height, data), then flush
WgpuBatchConvertResult(f, libOk) ==
    LET failAt == IF libOk THEN 0 ELSE 1
        added == PoolAddFrame(NewPool(GlobalBatchSize, TRUE, TRUE), f, TRUE, failAt)
        r == IF added.kind = "none" THEN PoolFlush(added.pool, TRUE, failAt) ELSE added
    IN  [converter |-> "wgpu",
         status |-> IF r.kind = "some" THEN "ok"
                    ELSE IF r.kind = "none" THEN "err_batch_failed"
                    ELSE r.kind,
         len |-> IF r.kind = "some" THEN r.results[Len(r.results)].len ELSE 0]

\* the converters ConverterFactory::create_converter builds
FactoryKinds == {"manual", "yuvutils", "opencv", "ffmpeg", "wgpu"}

\* these, and the two GPU engines used directly
ConverterKinds == FactoryKinds \cup {"gpu", "gpu_single"}

\* the frames handed to the converters
Formats == {YUV420P, "RGB24"}

\* data lengths around the two thresholds y_size + 2*(y_size/4) and width*height*3/2
ConvLens(w, h) == (RequiredLen(w, h) - 1)..((3 * w * h + 1) \div 2)

ConvFrames ==
    UNION { { [id |-> 1, width |-> w, height |-> h, len |-> n, format |-> fmt] :
                n \in ConvLens(w, h) \cap Nat, fmt \in Formats } :
            w \in 1..MaxDim, h \in 1..MaxDim }

InitConv ==
    /\ convFrame = NoFrame
    /\ convOut = NoOut
    /\ scaler = None
    /\ converter \in ConverterKinds
    /\ EngineIdle
    /\ PoolIdle
    /\ PipeIdle
    /\ FramePoolIdle
    /\ BitstreamIdle

\* convert of the converter create_converter builds for a mode other than WGPU
CpuConverterConvert(kind, f, libOk) ==
    CASE kind = "manual" -> ManualConvertResult(f)
      [] kind = "yuvutils" -> YuvutilsConvertResult(f, libOk)
      [] kind = "opencv" -> OpencvConvertResult(f, libOk)
      [] OTHER -> FfmpegConvertResult(f, libOk)

\* convert of the converter instance of this kind
ConverterConvert(kind, f, libOk) ==
    CASE kind = "gpu" -> GpuConvertResult(f, libOk)
      [] kind = "gpu_single" -> WgpuSingleConvertResult(f, libOk)
      [] kind = "wgpu" -> WgpuBatchConvertResult(f, libOk)
      [] OTHER -> CpuConverterConvert(kind, f, libOk)

\* YuvToRgbConverter::convert on the converter instance that was created
ConvertFrame ==
    \E f \in ConvFrames, libOk \in BOOLEAN :
        /\ converter \in ConverterKinds
        /\ convFrame' = f
        /\ scaler' = IF converter = "ffmpeg" THEN EnsureScaler(scaler, f) ELSE scaler
        /\ convOut' = ConverterConvert(converter, f, libOk)
        /\ UNCHANGED <<converter, notConv>>

NextConv == ConvertFrame

SpecConv == InitConv /\ [][NextConv]_vars

-----------------------------------------------------------------------------
(* The pixel arithmetic of ManualConverter (manual_converter.rs) *)

\* The f32 values are held in millionths. The samples drawn below keep every
\* product at least 0.01 away from an integer, so the truncation of the f32
\* result is that of the exact one.
Millionth == 1000000

\* x.clamp(0.0, 255.0) as u8, x in millionths
ClampToU8(x) == Min(Max(x, 0), 255 * Millionth) \div Millionth

\* the r, g, b of one pixel from its y, u and v samples
ManualPixel(y, u, v) ==
    LET y_val == y * Millionth
        u_val == u - 128
        v_val == v - 128
    IN  [r |-> ClampToU8(y_val + 1402000 * v_val),
         g |-> ClampToU8(y_val - 344136 * u_val - 714136 * v_val),
         b |-> ClampToU8(y_val + 1772000 * u_val)]

\* the samples a frame is filled with
LumaSamples == {0, 16, 128, 235, 255}

ChromaSamples == {16, 128, 240}

\* the frames filled with them
FilledFrames == { GoodFrame(1, res) : res \in {<<2, 2>>, <<4, 2>>, <<4, 4>>} }

\* a ManualConverter and no frame converted yet
InitPixel ==
    /\ convFrame = NoFrame
    /\ convOut = NoOut
    /\ scaler = None
    /\ converter = "manual"
    /\ EngineIdle
    /\ PoolIdle
    /\ PipeIdle
    /\ FramePoolIdle
    /\ BitstreamIdle

\* ManualConverter::convert on a frame whose planes are filled with y, u and v
ConvertFilledFrame ==
    /\ converter = "manual"
    /\ \E f \in FilledFrames, y \in LumaSamples, u \in ChromaSamples, v \in ChromaSamples :
          LET r == ManualConvertResult(f)
          IN  /\ convFrame' = f
              /\ convOut' = [converter |-> r.converter, status |-> r.status, len |-> r.len,
                             fill |-> [y |-> y, u |-> u, v |-> v],
                             pixel |-> IF r.status = "ok" THEN ManualPixel(y, u, v)
                                       ELSE [r |-> 0, g |-> 0, b |-> 0]]
    /\ UNCHANGED <<scaler, converter, notConv>>

NextPixel == ConvertFilledFrame

SpecPixel == InitPixel /\ [][NextPixel]_vars

-----------------------------------------------------------------------------
(* FrameDataPool (frame_extraction.rs, decoders/mod.rs) *)

\* Sizes are at least 8 bytes, the smallest allocation a Vec<u8> makes, so
\* that the growth of a Vec is the larger of twice its capacity and the
\* capacity asked for.

\* buffer.reserve(additional): nothing when capacity - len >= additional,
\* else the amortized growth of Vec
VecReserve(v, additional) ==
    IF v.capacity - v.len >= additional THEN v
    ELSE [v EXCEPT !.capacity = Max(2 * v.capacity, v.len + additional)]

\* frame_data.reserve_exact(additional)
VecReserveExact(v, additional) ==
    IF v.capacity - v.len >= additional THEN v
    ELSE [v EXCEPT !.capacity = v.len + additional]

\* FrameDataPool::get_buffer: the slot under the cursor is taken out of the
\* ring (mem::take leaves Vec::new() behind), cleared and grown with reserve
GetBuffer(p, required_size) ==
    LET current_idx == p.current_index
        taken == p.buffers[current_idx + 1]
        cleared == [taken EXCEPT !.len = 0]
        got == IF cleared.capacity < required_size
               THEN VecReserve(cleared, required_size - cleared.capacity)
               ELSE cleared
    IN  [pool |-> [buffers |-> [p.buffers EXCEPT ![current_idx + 1] = VecNew],
                   current_index |-> (current_idx + 1) % Len(p.buffers)],
         taken |-> taken,
         buffer |-> got]

\* sizes of the slots of a ring, and sizes of the frames copied into its buffers
SlotSizes == {16, 32}

RequiredSizes == {8, 16, 24, 40, 96}

\* FrameDataPool::new(capacity, estimated_frame_size)
InitFramePool ==
    /\ \E capacity \in 1..MaxSlots, buffer_size \in SlotSizes :
          framePool = FrameDataPoolNew(capacity, buffer_size)
    /\ buffer = NoBuffer
    /\ EngineIdle
    /\ ConvIdle
    /\ PoolIdle
    /\ PipeIdle
    /\ BitstreamIdle

\* frame_data.set_len(new_len): the length is set, whatever the capacity is
VecSetLen(v, new_len) == [v EXCEPT !.len = new_len]

\* extract_yuv_data_optimized for a 4:2:0 frame: pool.get_buffer(total_size),
\* frame_data.reserve_exact(total_size), and the set_len calls of the three
\* plane copies, the last of which brings the length to total_size when no
\* plane is padded
AcquireBuffer ==
    /\ buffer.n < MaxAcquisitions
    /\ \E total_size \in RequiredSizes :
          LET r == GetBuffer(framePool, total_size)
              frame_data == VecReserveExact(r.buffer, total_size)
          IN  /\ framePool' = r.pool
              /\ buffer' =
                   [required_size |-> total_size,
                    taken |-> r.taken,
                    got |-> r.buffer,
                    frame_data |-> VecSetLen(frame_data, total_size),
                    allocations |-> (IF r.buffer.capacity # r.taken.capacity THEN 1 ELSE 0)
                                    + (IF frame_data.capacity # r.buffer.capacity
                                       THEN 1 ELSE 0),
                    n |-> buffer.n + 1,
                    path |-> "yuv420p"]
    /\ UNCHANGED notFramePool

\* extract_yuv_data_optimized for a frame of another format:
\* pool.get_buffer(data_size), then frame_data.set_len(data_size)
AcquireBufferOtherFormat ==
    /\ buffer.n < MaxAcquisitions
    /\ \E data_size \in RequiredSizes :
          LET r == GetBuffer(framePool, data_size)
          IN  /\ framePool' = r.pool
              /\ buffer' =
                   [required_size |-> data_size,
                    taken |-> r.taken,
                    got |-> r.buffer,
                    frame_data |-> VecSetLen(r.buffer, data_size),
                    allocations |-> IF r.buffer.capacity # r.taken.capacity THEN 1 ELSE 0,
                    n |-> buffer.n + 1,
                    path |-> "other"]
    /\ UNCHANGED notFramePool

NextFramePool == AcquireBuffer \/ AcquireBufferOtherFormat

SpecFramePool == InitFramePool /\ [][NextFramePool]_vars

-----------------------------------------------------------------------------
(* Mp4BitstreamConverter (decoders/mp4_decoder.rs) *)

\* A NAL unit is a record [nal_type, first_mb, nal_size, n]: the type in the
\* low five bits of its first byte, whether the top bit of its second byte is
\* set (bytes[1] & 0x80 != 0), the value of its length prefix, and its place
\* among the units of the track (0 for a unit of the header).
NalUnit(nal_type, first_mb, nal_size, n) ==
    [nal_type |-> nal_type, first_mb |-> first_mb, nal_size |-> nal_size, n |-> n]

\* the units a packet is made of: parameter sets, the first and a later slice
\* of an IDR picture, a slice of another picture, and a length prefix of zero
NalKinds == {"Sps", "Pps", "IdrFirst", "IdrNext", "Slice", "Zero"}

UnitOfKind(kind, n) ==
    IF kind = "Zero" THEN NalUnit("none", FALSE, 0, n)
    ELSE IF kind = "IdrFirst" THEN NalUnit("IdrSlice", TRUE, 2, n)
    ELSE IF kind = "IdrNext" THEN NalUnit("IdrSlice", FALSE, 2, n)
    ELSE NalUnit(kind, TRUE, 2, n)

\* the packets of at most n units, as sequences of kinds
PacketsUpTo(n) == UNION { [1..k -> NalKinds] : k \in 1..n }

\* avcC: length_size_minus_one + 1, and one SPS and one PPS
LengthSizes == {1, 4}

HeaderSps == <<NalUnit("Sps", FALSE, 2, 0)>>

HeaderPps == <<NalUnit("Pps", FALSE, 2, 0)>>

\* the bytes of a stream of units, each behind its length prefix
RECURSIVE StreamBytes(_, _)
StreamBytes(stream, length_size) ==
    IF stream = <<>> THEN 0
    ELSE length_size + Head(stream).nal_size + StreamBytes(Tail(stream), length_size)

\* NalUnit::from_stream: None for a length prefix of zero, else the unit and
\* the stream behind it
FromStream(stream, length_size) ==
    IF Head(stream).nal_size = 0
    THEN [some |-> FALSE, unit |-> Head(stream), stream |-> stream]
    ELSE [some |-> TRUE, unit |-> Head(stream), stream |-> Tail(stream)]

\* out.extend([0, 0, 1]); out.extend(bytes) for each unit of a list
StartCoded(units, from) ==
    [i \in 1..Len(units) |-> [start_code |-> <<0, 0, 1>>, unit |-> units[i], from |-> from]]

\* the body of the while loop of convert_packet for one unit: the converter
\* after it and what it appends to out
ConvertUnit(b, unit) ==
    LET idr == unit.nal_type = "IdrSlice"
        seen == [b EXCEPT !.sps_seen = b.sps_seen \/ unit.nal_type = "Sps",
                          !.pps_seen = b.pps_seen \/ unit.nal_type = "Pps"]
        flagged == IF idr /\ ~seen.new_idr /\ unit.first_mb
                   THEN [seen EXCEPT !.new_idr = TRUE] ELSE seen
        both == idr /\ flagged.new_idr /\ ~flagged.sps_seen /\ ~flagged.pps_seen
        inserted == IF both THEN [flagged EXCEPT !.new_idr = FALSE] ELSE flagged
        only_pps == idr /\ inserted.new_idr /\ inserted.sps_seen /\ ~inserted.pps_seen
        written == (IF both THEN StartCoded(b.sps, "header") \o StartCoded(b.pps, "header")
                    ELSE <<>>)
                   \o (IF only_pps THEN StartCoded(b.pps, "header") ELSE <<>>)
                   \o StartCoded(<<unit>>, "stream")
        after == IF ~inserted.new_idr /\ unit.nal_type = "Slice"
                 THEN [inserted EXCEPT !.new_idr = TRUE, !.sps_seen = FALSE,
                                       !.pps_seen = FALSE]
                 ELSE inserted
    IN  [bsf |-> after, written |-> written]

\* a converter for a track, before its first packet
InitBitstream ==
    /\ bsf \in { BitstreamConverterNew(ls, HeaderSps, HeaderPps) : ls \in LengthSizes }
    /\ packetCall = NoPacketCall
    /\ EngineIdle
    /\ ConvIdle
    /\ PoolIdle
    /\ PipeIdle
    /\ FramePoolIdle

\* convert_packet is called with the next sample of the track: out.clear()
ConvertPacketBegin ==
    /\ packetCall.pc = "idle"
    /\ packetCall.nals < MaxNals
    /\ \E kinds \in PacketsUpTo(MaxNals - packetCall.nals) :
          packetCall' = [packetCall EXCEPT
                           !.pc = "loop",
                           !.stream = [i \in 1..Len(kinds) |->
                                          UnitOfKind(kinds[i], packetCall.nals + i)],
                           !.out = <<>>,
                           !.nals = packetCall.nals + Len(kinds),
                           !.packets = packetCall.packets + 1]
    /\ UNCHANGED <<bsf, notBitstream>>

\* one turn of "while !stream.is_empty()": a None from from_stream goes to
\* the next turn through continue, with stream as it was
ConvertPacketTurn ==
    /\ packetCall.pc = "loop"
    /\ packetCall.stream # <<>>
    /\ LET r == FromStream(packetCall.stream, bsf.length_size)
       IN  IF ~r.some
           THEN /\ packetCall' = [packetCall EXCEPT !.spun = TRUE]
                /\ bsf' = bsf
           ELSE LET c == ConvertUnit(bsf, r.unit)
                IN  /\ bsf' = c.bsf
                    /\ packetCall' = [packetCall EXCEPT
                                        !.stream = r.stream,
                                        !.out = packetCall.out \o c.written,
                                        !.annexb = packetCall.annexb \o c.written]
    /\ UNCHANGED notBitstream

\* the loop ends on an empty stream and convert_packet returns
ConvertPacketReturn ==
    /\ packetCall.pc = "loop"
    /\ packetCall.stream = <<>>
    /\ packetCall' = [packetCall EXCEPT !.pc = "idle"]
    /\ UNCHANGED <<bsf, notBitstream>>

NextBitstream == ConvertPacketBegin \/ ConvertPacketTurn \/ ConvertPacketReturn

SpecBitstream == InitBitstream /\ [][NextBitstream]_vars

\* the decoding thread goes on running while convert_packet has work to do
LiveSpecBitstream == SpecBitstream /\ WF_vars(ConvertPacketTurn \/ ConvertPacketReturn)

-----------------------------------------------------------------------------
(* The input file and the command line (benchmark.rs, frame_extraction.rs) *)

\* Times are counted in ticks of the stream's time_base, 1/tps of a second.
\* The inputs drawn below make every interval a whole number of ticks and
\* every quotient a binary fraction, so the f64 arithmetic of the source is exact.

\* a packet of the video stream and the timestamps of the frames the decoder
\* yields once it has been fed
VideoPacket(frames) == [video |-> TRUE, frames |-> frames, bad |-> FALSE]

\* a packet of another stream
OtherPacket == [video |-> FALSE, frames |-> <<>>, bad |-> FALSE]

\* a packet send_packet rejects
BadPacket == [video |-> TRUE, frames |-> <<>>, bad |-> TRUE]

\* two seconds at 2 frames per second, the decoder holding back one frame
ShortClip ==
    [opens |-> TRUE, hasVideo |-> TRUE, tps |-> 4, duration |-> 8, rate |-> <<2, 1>>,
     res |-> <<2, 2>>, format |-> YUV420P,
     packets |-> <<VideoPacket(<<0>>), OtherPacket, VideoPacket(<<>>),
                   VideoPacket(<<2, 4>>), VideoPacket(<<6>>)>>]

\* the same length with a damaged third video packet
DamagedClip ==
    [ShortClip EXCEPT !.packets = <<VideoPacket(<<0>>), VideoPacket(<<2>>), BadPacket,
                                    VideoPacket(<<4>>), VideoPacket(<<6>>)>>]

\* files extract_frames_streaming gives up on before the packet loop
UnreadableClip == [ShortClip EXCEPT !.opens = FALSE]

NoTrackClip == [ShortClip EXCEPT !.hasVideo = FALSE]

NoDurationClip == [ShortClip EXCEPT !.duration = 0]

NoRateClip == [ShortClip EXCEPT !.rate = <<0, 1>>]

\* the four frames of ShortClip under a stream duration of 1.75 s: the frame
\* count taken from the metadata, (1.75 * 2) as u32, is 3
TruncatedClip == [ShortClip EXCEPT !.duration = 7]

\* a clip long enough to fill the GPU accumulator twice and leave a remainder
LongFrames == 2 * TARGET_BATCH_SIZE + 2

LongClip(res) ==
    [opens |-> TRUE, hasVideo |-> TRUE, tps |-> 4, duration |-> LongFrames,
     rate |-> <<4, 1>>, res |-> res, format |-> YUV420P,
     packets |-> [i \in 1..LongFrames |-> VideoPacket(<<i - 1>>)]]

ShortClips ==
    {ShortClip, DamagedClip, UnreadableClip, NoTrackClip, NoDurationClip, NoRateClip,
     TruncatedClip}

\* what Decoder::extract_frames_streaming hands back to
\* extract_frames_with_decoder: an error, or a count and a list of frames
NoDecoded == [ok |-> FALSE, count |-> 0, frames |-> 0]

DecoderOutputs ==
    {NoDecoded} \cup { [ok |-> TRUE, count |-> n, frames |-> n] : n \in 0..3 }

\* the conversion modes run through the pipeline
PipelineModes == {"wgpu", "manual", "yuvutils"}

\* --frames and --fps
FrameLimits == {0, 1, 2}

SampleRates == {0, 1, 2}

\* the sampling interval is a whole number of ticks
ExactTiming(v, max_frames, sample_fps) ==
    /\ sample_fps > 0 => v.tps % sample_fps = 0
    /\ (sample_fps = 0 /\ max_frames > 0) => v.duration % max_frames = 0

\* runs of extract_frames_streaming on the short clips
ShortScenarios ==
    { c \in [producer : {"streaming"}, video : ShortClips, decoded : {NoDecoded},
             capacity : 1..MaxCapacity, max_frames : FrameLimits,
             sample_fps : SampleRates, mode : PipelineModes, output_dir : BOOLEAN] :
        ExactTiming(c.video, c.max_frames, c.sample_fps) }

\* runs of extract_frames_with_decoder
DecoderScenarios ==
    [producer : {"decoder"}, video : {ShortClip}, decoded : DecoderOutputs,
     capacity : 1..MaxCapacity, max_frames : {0}, sample_fps : {0},
     mode : {"wgpu", "yuvutils"}, output_dir : BOOLEAN]

\* GPU-mode runs on the long clip, every frame sampled
LongScenarios ==
    [producer : {"streaming"}, video : {LongClip(Res5M), LongClip(ResVga), LongClip(Res8K)},
     decoded : {NoDecoded}, capacity : {MaxCapacity}, max_frames : {0},
     sample_fps : {0}, mode : {"wgpu"}, output_dir : BOOLEAN]

Scenarios == ShortScenarios \cup DecoderScenarios \cup LongScenarios

-----------------------------------------------------------------------------
(* The bounded channel (tokio::sync::mpsc::channel) *)

\* a send that discards the frame when the channel is full
ChannelSendLossy(ch, capacity, closed, f) ==
    IF closed THEN [outcome |-> "closed", chan |-> ch]
    ELSE IF Len(ch) >= capacity THEN [outcome |-> "sent", chan |-> ch]
    ELSE [outcome |-> "sent", chan |-> Append(ch, f)]

\* sender.send(frame).await: an error once the receiver is gone, pending while
\* the channel is full, queued otherwise
ChannelSend(ch, capacity, closed, f) ==
    IF closed THEN [outcome |-> "closed", chan |-> ch]
    ELSE IF Len(ch) >= capacity THEN [outcome |-> "pending", chan |-> ch]
    ELSE [outcome |-> "sent", chan |-> Append(ch, f)]

\* a receiver that outlives the conversion task
ReceiverNeverClosed == FALSE

\* the receiver is dropped when process_frame_with_mode returns or unwinds
ReceiverClosed == consumer.pc = "done"

\* the sender is dropped when the extraction function returns
SenderClosed == producer.pc = "done"

-----------------------------------------------------------------------------
(* extract_frames_streaming (frame_extraction.rs) *)

\* total_video_frames: (video_duration_seconds * fps) as u32
TotalVideoFrames(v) == (v.duration * v.rate[1]) \div (v.tps * v.rate[2])

\* a frame target taken from the metadata whatever max_frames is
FinalOutputFramesMetadata(v, max_frames, sample_fps) ==
    IF sample_fps > 0 THEN (v.duration * sample_fps) \div v.tps
    ELSE TotalVideoFrames(v)

\* final_output_frames
FinalOutputFrames(v, max_frames, sample_fps) ==
    IF max_frames = 0
    THEN IF sample_fps > 0 THEN (v.duration * sample_fps) \div v.tps
         ELSE TotalVideoFrames(v)
    ELSE max_frames

\* frame_interval, in ticks
FrameInterval(v, max_frames, sample_fps) ==
    IF sample_fps > 0 THEN v.tps \div sample_fps
    ELSE IF max_frames > 0 THEN v.duration \div max_frames
    ELSE 0

\* a frame numbered before frame_count is incremented
ChannelFrameFromZero(frame_number, v) ==
    IF v.format = YUV420P THEN GoodFrame(frame_number - 1, v.res)
    ELSE [id |-> frame_number - 1, width |-> v.res[1], height |-> v.res[2],
          len |-> v.res[1] * v.res[2] * 3, format |-> v.format]

\* extract_yuv_data_optimized and the ChannelFrameData built around it
ChannelFrame(frame_number, v) ==
    IF v.format = YUV420P THEN GoodFrame(frame_number, v.res)
    ELSE [id |-> frame_number, width |-> v.res[1], height |-> v.res[2],
          len |-> v.res[1] * v.res[2] * 3, format |-> v.format]

\* the function returns: Ok(ProcessingResult { frames_processed: frame_count })
ProducerOk(p) ==
    [p EXCEPT !.pc = "done", !.status = "ok", !.frames_processed = p.frame_count,
              !.cur = NoFrame]

\* the function returns an error
ProducerErr(p, e) == [p EXCEPT !.pc = "done", !.status = e, !.cur = NoFrame]

\* the check that follows the while loop in the packet loop
AfterWhile(p) ==
    IF p.frame_count >= p.final_output_frames THEN ProducerOk(p)
    ELSE [p EXCEPT !.pc = "packet", !.cur = NoFrame]

\* a start that does not look at the stream duration
ExtractStartNoDurationCheck ==
    /\ cfg.producer = "streaming"
    /\ producer.pc = "start"
    /\ LET v == cfg.video
       IN  producer' =
             IF ~v.opens THEN ProducerErr(producer, "err_open")
             ELSE IF ~v.hasVideo THEN ProducerErr(producer, "err_no_video")
             ELSE IF ~(v.rate[1] > 0 /\ v.rate[2] > 0)
             THEN ProducerErr(producer, "err_frame_rate")
             ELSE [producer EXCEPT
                     !.pc = "packet",
                     !.final_output_frames =
                         FinalOutputFrames(v, cfg.max_frames, cfg.sample_fps),
                     !.frame_interval =
                         FrameInterval(v, cfg.max_frames, cfg.sample_fps)]
    /\ UNCHANGED <<cfg, chan, consumer, out, obs, notPipe>>

\* from the open of the input to the start of the packet loop
ExtractStart ==
    /\ cfg.producer = "streaming"
    /\ producer.pc = "start"
    /\ LET v == cfg.video
       IN  producer' =
             IF ~v.opens THEN ProducerErr(producer, "err_open")
             ELSE IF ~v.hasVideo THEN ProducerErr(producer, "err_no_video")
             ELSE IF v.duration <= 0 THEN ProducerErr(producer, "err_duration")
             ELSE IF ~(v.rate[1] > 0 /\ v.rate[2] > 0)
             THEN ProducerErr(producer, "err_frame_rate")
             ELSE [producer EXCEPT
                     !.pc = "packet",
                     !.final_output_frames =
                         FinalOutputFrames(v, cfg.max_frames, cfg.sample_fps),
                     !.frame_interval =
                         FrameInterval(v, cfg.max_frames, cfg.sample_fps)]
    /\ UNCHANGED <<cfg, chan, consumer, out, obs, notPipe>>

\* one turn of "for (stream, packet) in input.packets()" up to the while loop
FeedPacket ==
    /\ cfg.producer = "streaming"
    /\ producer.pc = "packet"
    /\ IF producer.pkt > Len(cfg.video.packets)
       THEN /\ producer' = ProducerOk(producer)
            /\ obs' = obs
       ELSE LET packet == cfg.video.packets[producer.pkt]
                next == [producer EXCEPT !.pkt = producer.pkt + 1]
            IN  IF packet.video /\ producer.frame_count < producer.final_output_frames
                THEN /\ obs' = [obs EXCEPT !.fed = obs.fed + 1]
                     /\ producer' =
                          IF packet.bad THEN ProducerErr(next, "err_decode")
                          ELSE [next EXCEPT !.pc = "receive",
                                            !.decoded = producer.decoded \o packet.frames]
                ELSE /\ obs' = obs
                     /\ producer' = AfterWhile(next)
    /\ UNCHANGED <<cfg, chan, consumer, out, notPipe>>

\* a sampling loop whose threshold moves on at every decoded frame
ReceiveFrameAdvanceOnSkip ==
    /\ cfg.producer = "streaming"
    /\ producer.pc = "receive"
    /\ producer' =
         IF producer.decoded = <<>>
               \/ producer.frame_count >= producer.final_output_frames
         THEN AfterWhile(producer)
         ELSE LET timestamp == Head(producer.decoded)
                  should_extract == \/ producer.frame_interval = 0
                                    \/ timestamp >= producer.next_extract_time
                  popped == [producer EXCEPT
                               !.decoded = Tail(producer.decoded),
                               !.next_extract_time =
                                   producer.next_extract_time + producer.frame_interval]
              IN  IF ~should_extract THEN popped
                  ELSE [popped EXCEPT
                          !.frame_count = producer.frame_count + 1,
                          !.cur = ChannelFrame(producer.frame_count + 1, cfg.video),
                          !.pc = "send"]
    /\ UNCHANGED <<cfg, chan, consumer, out, obs, notPipe>>

\* one turn of "while decoder.receive_frame(..).is_ok() && frame_count < .."
\* up to the send
ReceiveFrame ==
    /\ cfg.producer = "streaming"
    /\ producer.pc = "receive"
    /\ producer' =
         IF producer.decoded = <<>>
               \/ producer.frame_count >= producer.final_output_frames
         THEN AfterWhile(producer)
         ELSE LET timestamp == Head(producer.decoded)
                  should_extract == \/ producer.frame_interval = 0
                                    \/ timestamp >= producer.next_extract_time
                  popped == [producer EXCEPT !.decoded = Tail(producer.decoded)]
              IN  IF ~should_extract THEN popped
                  ELSE [popped EXCEPT
                          !.next_extract_time =
                              producer.next_extract_time + producer.frame_interval,
                          !.frame_count = producer.frame_count + 1,
                          !.cur = ChannelFrame(producer.frame_count + 1, cfg.video),
                          !.pc = "send"]
    /\ UNCHANGED <<cfg, chan, consumer, out, obs, notPipe>>

\* sender.send(channel_frame).await and the two breaks that follow it
SendFrame ==
    /\ cfg.producer = "streaming"
    /\ producer.pc = "send"
    /\ LET r == ChannelSend(chan, cfg.capacity, ReceiverClosed, producer.cur)
       IN  /\ r.outcome # "pending"
           /\ chan' = r.chan
           /\ IF r.outcome = "sent"
              THEN /\ obs' = [obs EXCEPT !.sentOk = obs.sentOk + 1]
                   /\ producer' =
                        IF producer.frame_count >= producer.final_output_frames
                        THEN ProducerOk(producer)
                        ELSE [producer EXCEPT !.pc = "receive", !.cur = NoFrame]
              ELSE /\ obs' = [obs EXCEPT
                                !.failedSends = obs.failedSends + 1,
                                !.fedAtFail = IF obs.failedSends = 0 THEN obs.fed
                                              ELSE obs.fedAtFail,
                                !.countAtFail = IF obs.failedSends = 0
                                                THEN producer.frame_count
                                                ELSE obs.countAtFail]
                   /\ producer' = AfterWhile(producer)
    /\ UNCHANGED <<cfg, consumer, out, notPipe>>

-----------------------------------------------------------------------------
(* extract_frames_with_decoder (decoders/mod.rs) *)

\* spawn_blocking(decoder.extract_frames_streaming(..)).await??
DecoderRun ==
    /\ cfg.producer = "decoder"
    /\ producer.pc = "start"
    /\ producer' =
         IF ~cfg.decoded.ok THEN ProducerErr(producer, "err_decoder")
         ELSE [producer EXCEPT !.pc = "send",
                               !.decoded = [i \in 1..cfg.decoded.frames |-> i],
                               !.frame_count = cfg.decoded.count]
    /\ UNCHANGED <<cfg, chan, consumer, out, obs, notPipe>>

\* one turn of "for frame in frames", and the return of Ok(result)
DecoderSend ==
    /\ cfg.producer = "decoder"
    /\ producer.pc = "send"
    /\ IF producer.decoded = <<>>
       THEN /\ producer' = ProducerOk(producer)
            /\ UNCHANGED <<chan, obs>>
       ELSE LET r == ChannelSend(chan, cfg.capacity, ReceiverClosed,
                                 ChannelFrame(Head(producer.decoded), cfg.video))
            IN  /\ r.outcome # "pending"
                /\ chan' = r.chan
                /\ IF r.outcome = "sent"
                   THEN /\ obs' = [obs EXCEPT !.sentOk = obs.sentOk + 1]
                        /\ producer' = [producer EXCEPT !.decoded = Tail(producer.decoded)]
                   ELSE /\ obs' = [obs EXCEPT
                                     !.failedSends = obs.failedSends + 1,
                                     !.countAtFail = producer.frame_count]
                        /\ producer' = ProducerOk(producer)
    /\ UNCHANGED <<cfg, consumer, out, notPipe>>

-----------------------------------------------------------------------------
(* process_frame_with_mode and process_frame_batch (converters/mod.rs) *)

\* ImageBuffer::from_raw(width, height, rgb) is None for a buffer too short
FromRawOk(f, rgb_len) == rgb_len >= f.width * f.height * 3

\* the function returns Ok(processed_count)
ConsumerOk(c) == [c EXCEPT !.pc = "done", !.status = "ok"]

\* the function returns an error, or unwinds
ConsumerErr(c, e) == [c EXCEPT !.pc = "done", !.status = e]

\* result frame_idx of a batch, stored under the number of frame frame_idx
PairResults(frame_batch, results) ==
    [frame_idx \in 1..Len(results) |->
        [frame_number |-> frame_batch[frame_idx].id, src |-> results[frame_idx].src]]

\* process_frame_batch. gpuUp: GpuImageProcessor::new finds a device; failAt:
\* the sub-batch whose readback fails; saveFailAt: the frame whose img.save fails
ProcessFrameBatch(frame_batch, output_dir, gpuUp, failAt, saveFailAt) ==
    IF Len(frame_batch) = 0
    THEN [status |-> "ok", count |-> 0, out |-> <<>>, engines |-> 0, allocs |-> 0]
    ELSE IF ~gpuUp
    THEN [status |-> "err_no_device", count |-> 0, out |-> <<>>, engines |-> 0,
          allocs |-> 0]
    ELSE LET r == ConvertYuv420pToRgb(NewEngine, frame_batch, failAt)
             pairs == PairResults(frame_batch, r.results)
             unsaved == { i \in 1..Len(r.results) :
                            \/ ~FromRawOk(frame_batch[i], r.results[i].len)
                            \/ i = saveFailAt }
             firstUnsaved == CHOOSE i \in unsaved : \A j \in unsaved : i <= j
         IN  IF r.status # "ok"
             THEN [status |-> r.status, count |-> 0, out |-> <<>>, engines |-> 1,
                   allocs |-> r.eng.allocs]
             ELSE IF output_dir /\ unsaved # {}
             THEN [status |-> "err_save", count |-> 0,
                   out |-> SubSeq(pairs, 1, firstUnsaved - 1), engines |-> 1,
                   allocs |-> r.eng.allocs]
             ELSE [status |-> "ok", count |-> Len(r.results), out |-> pairs,
                   engines |-> 1, allocs |-> r.eng.allocs]

\* fs::create_dir_all(output_dir)?, then the choice of the branch; the
\* converters of the CPU modes are built without a fallible step
ConsumerStart ==
    /\ consumer.pc = "start"
    /\ \E dirOk \in BOOLEAN :
          IF cfg.output_dir /\ ~dirOk
          THEN /\ consumer' = ConsumerErr(consumer, "err_io")
               /\ chan' = <<>>
          ELSE /\ consumer' = [consumer EXCEPT !.pc = "recv"]
               /\ chan' = chan
    /\ UNCHANGED <<cfg, producer, out, obs, notPipe>>

\* the counts kept about the calls of process_frame_batch: the lists handed
\* over, the engines built and the device buffer sets allocated for them
Flushed(o, frame_batch, b) ==
    [o EXCEPT !.flushes = o.flushes + 1,
              !.handed = o.handed + Len(frame_batch),
              !.lastFlush = Len(frame_batch),
              !.engines = o.engines + b.engines,
              !.bufferSets = o.bufferSets + b.allocs]

\* a branch that keeps the converted frames in the list
AfterBatchKeep(c, frame_batch, b) ==
    IF b.status = "ok"
    THEN [c EXCEPT !.frame_batch = frame_batch,
                   !.processed_count = c.processed_count + b.count]
    ELSE ConsumerErr([c EXCEPT !.frame_batch = frame_batch], b.status)

\* the outcome of a process_frame_batch call inside the GPU branch
AfterBatch(c, frame_batch, b) ==
    IF b.status = "ok"
    THEN [c EXCEPT !.frame_batch = <<>>,
                   !.processed_count = c.processed_count + b.count]
    ELSE ConsumerErr([c EXCEPT !.frame_batch = frame_batch], b.status)

\* GPU branch: one turn of "while let Some(channel_frame) = receiver.recv().await"
ConsumerRecvGpu ==
    /\ cfg.mode = "wgpu"
    /\ consumer.pc = "recv"
    /\ chan # <<>>
    /\ LET frame_batch == Append(consumer.frame_batch, Head(chan))
       IN  IF Len(frame_batch) >= TARGET_BATCH_SIZE
           THEN \E gpuUp \in BOOLEAN, failAt \in 0..2,
                   saveFailAt \in {0, 1, Len(frame_batch)} :
                   LET b == ProcessFrameBatch(frame_batch, cfg.output_dir, gpuUp,
                                              failAt, saveFailAt)
                   IN  /\ consumer' = AfterBatch(consumer, frame_batch, b)
                       /\ out' = out \o b.out
                       /\ chan' = IF b.status = "ok" THEN Tail(chan) ELSE <<>>
                       /\ obs' = Flushed([obs EXCEPT !.received = obs.received + 1],
                                         frame_batch, b)
           ELSE /\ consumer' = [consumer EXCEPT !.frame_batch = frame_batch]
                /\ out' = out
                /\ chan' = Tail(chan)
                /\ obs' = [obs EXCEPT !.received = obs.received + 1]
    /\ UNCHANGED <<cfg, producer, notPipe>>

\* GPU branch: recv returns None, the remaining frames are converted if there
\* are any, Ok
ConsumerEndGpu ==
    /\ cfg.mode = "wgpu"
    /\ consumer.pc = "recv"
    /\ chan = <<>>
    /\ SenderClosed
    /\ IF consumer.frame_batch = <<>>
       THEN /\ consumer' = ConsumerOk(consumer)
            /\ UNCHANGED <<out, obs>>
       ELSE \E gpuUp \in BOOLEAN, failAt \in 0..1,
               saveFailAt \in {0, 1, Len(consumer.frame_batch)} :
               LET b == ProcessFrameBatch(consumer.frame_batch, cfg.output_dir, gpuUp,
                                          failAt, saveFailAt)
                   after == AfterBatch(consumer, consumer.frame_batch, b)
               IN  /\ consumer' = IF b.status = "ok" THEN ConsumerOk(after) ELSE after
                   /\ out' = out \o b.out
                   /\ obs' = Flushed(obs, consumer.frame_batch, b)
    /\ UNCHANGED <<cfg, producer, chan, notPipe>>

\* a loop body that leaves the function on a failed conversion
CpuFrameOutcomeAbort(r, frame_data, output_dir, saveOk) ==
    IF r.status = "panic" THEN "panic"
    ELSE IF r.status # "ok" THEN "err_convert"
    ELSE IF ~output_dir THEN "ok"
    ELSE IF ~FromRawOk(frame_data, r.len) THEN "err_image"
    ELSE IF ~saveOk THEN "err_save"
    ELSE "ok"

\* CPU branch: what the loop body does with the result r of converter.convert:
\* Err is printed and the frame skipped; Ok is turned into an image and saved
\* when there is an output directory, both with "?"
CpuFrameOutcome(r, frame_data, output_dir, saveOk) ==
    IF r.status = "panic" THEN "panic"
    ELSE IF r.status # "ok" THEN "skipped"
    ELSE IF ~output_dir THEN "ok"
    ELSE IF ~FromRawOk(frame_data, r.len) THEN "err_image"
    ELSE IF ~saveOk THEN "err_save"
    ELSE "ok"

\* CPU branch: one turn of the receive loop
ConsumerRecvCpu ==
    /\ cfg.mode # "wgpu"
    /\ consumer.pc = "recv"
    /\ chan # <<>>
    /\ \E libOk \in BOOLEAN, saveOk \in BOOLEAN :
          LET frame_data == Head(chan)
              r == CpuConverterConvert(cfg.mode, frame_data, libOk)
              status == CpuFrameOutcome(r, frame_data, cfg.output_dir, saveOk)
              failed == r.status \notin {"ok", "panic"}
          IN  /\ consumer' =
                   IF status = "ok"
                   THEN [consumer EXCEPT !.processed_count = consumer.processed_count + 1]
                   ELSE IF status = "skipped" THEN consumer
                   ELSE ConsumerErr(consumer, status)
              /\ out' = IF status = "ok"
                        THEN Append(out, [frame_number |-> frame_data.id,
                                          src |-> frame_data.id])
                        ELSE out
              /\ chan' = IF status \in {"ok", "skipped"} THEN Tail(chan) ELSE <<>>
              /\ obs' = [obs EXCEPT !.received = obs.received + 1,
                                    !.convertErrs = IF failed THEN obs.convertErrs + 1
                                                    ELSE obs.convertErrs]
    /\ UNCHANGED <<cfg, producer, notPipe>>

\* CPU branch: recv returns None, converter.cleanup(), Ok
ConsumerEndCpu ==
    /\ cfg.mode # "wgpu"
    /\ consumer.pc = "recv"
    /\ chan = <<>>
    /\ SenderClosed
    /\ consumer' = ConsumerOk(consumer)
    /\ UNCHANGED <<cfg, producer, chan, out, obs, notPipe>>

-----------------------------------------------------------------------------
(* run_single_mode: the two tasks and the channel between them *)

Init ==
    /\ cfg \in Scenarios
    /\ producer = NewProducer
    /\ chan = <<>>
    /\ consumer = NewConsumer
    /\ out = <<>>
    /\ obs = NoObs
    /\ EngineIdle
    /\ ConvIdle
    /\ PoolIdle
    /\ FramePoolIdle
    /\ BitstreamIdle

Next ==
    \/ ExtractStart
    \/ FeedPacket
    \/ ReceiveFrame
    \/ SendFrame
    \/ DecoderRun
    \/ DecoderSend
    \/ ConsumerStart
    \/ ConsumerRecvGpu
    \/ ConsumerEndGpu
    \/ ConsumerRecvCpu
    \/ ConsumerEndCpu

Spec == Init /\ [][Next]_vars

\* the steps of extract_task and of convert_task
ProducerStep ==
    ExtractStart \/ FeedPacket \/ ReceiveFrame \/ SendFrame \/ DecoderRun \/ DecoderSend

ConsumerStep ==
    ConsumerStart \/ ConsumerRecvGpu \/ ConsumerEndGpu \/ ConsumerRecvCpu \/ ConsumerEndCpu

\* both tasks are spawned on the runtime, which runs a task that is ready
LiveSpec == Spec /\ WF_vars(ProducerStep) /\ WF_vars(ConsumerStep)

-----------------------------------------------------------------------------
(* Inputs of the engine specification *)

\* a batch: n frames of size res, all good except possibly frame odd, which is
\* of another size, smaller ("res") or larger ("big"), or short ("short")
MakeBatch(shape) ==
    [i \in 1..shape.n |->
        IF i # shape.odd THEN GoodFrame(i, shape.res)
        ELSE IF shape.kind = "res" THEN GoodFrame(i, ResVga)
        ELSE IF shape.kind = "big" THEN GoodFrame(i, ResFull8K)
        ELSE ShortFrame(i, shape.res)]

BatchShapes ==
    { s \in [n : 0..Max(MaxBatch, MaxReuseBatch), res : EngineRes,
              odd : 0..Max(MaxBatch, MaxReuseBatch), kind : {"none", "res", "big", "short"}] :
        /\ s.odd <= s.n
        /\ (s.kind = "none") = (s.odd = 0) }

-----------------------------------------------------------------------------
(* The engine specification: successive convert calls on one engine *)

\* (batch_size, width, height) of a batch, the size being its first frame's
Triple(shape) ==
    IF shape.n = 0 THEN <<0, 0, 0>>
    ELSE <<shape.n, MakeBatch(shape)[1].width, MakeBatch(shape)[1].height>>

\* number of sub-batches a batch of this shape is cut into
SubBatchCount(shape) ==
    LET m == MaxSingleBatch(shape.res[1], shape.res[2])
    IN  IF shape.n <= m \/ m = 0 THEN 1 ELSE (shape.n + m - 1) \div m

\* one call on a fresh engine, with batches up to MaxBatch frames
InitEngine ==
    /\ engine = NewEngine
    /\ engCall = NoCall
    /\ engCalls = 0
    /\ engPlan = [maxN |-> MaxBatch, calls |-> 1]
    /\ ConvIdle
    /\ PoolIdle
    /\ PipeIdle
    /\ FramePoolIdle
    /\ BitstreamIdle

\* up to MaxCalls calls on one engine, with batches up to MaxReuseBatch frames
InitReuse ==
    /\ engine = NewEngine
    /\ engCall = NoCall
    /\ engCalls = 0
    /\ engPlan = [maxN |-> MaxReuseBatch, calls |-> MaxCalls]
    /\ ConvIdle
    /\ PoolIdle
    /\ PipeIdle
    /\ FramePoolIdle
    /\ BitstreamIdle

\* one call of GpuImageProcessor::convert_yuv420p_to_rgb
EngineConvert ==
    /\ engCalls < engPlan.calls
    /\ engCall.status # "panic"
    /\ UNCHANGED <<engPlan, notEngine>>
    /\ \E shape \in { b \in BatchShapes : b.n <= engPlan.maxN } :
       \E failAt \in 0..Min(2, SubBatchCount(shape)) :
          LET r == ConvertYuv420pToRgb(engine, MakeBatch(shape), failAt)
          IN  /\ engine' = r.eng
              /\ engCall' = [shape |-> shape, failAt |-> failAt, status |-> r.status,
                             results |-> r.results, subs |-> r.subs,
                             allocsBefore |-> engine.allocs,
                             cachedBefore |-> engine.cached_size,
                             prevTriple |-> IF engCall.status = "no_call" THEN None
                                            ELSE Triple(engCall.shape),
                             prevKind |-> engCall.shape.kind,
                             prevStatus |-> engCall.status]
              /\ engCalls' = engCalls + 1

NextEngine == EngineConvert

SpecEngine == InitEngine /\ [][NextEngine]_vars

SpecReuse == InitReuse /\ [][NextEngine]_vars

SpecPool == InitPool /\ [][NextPool]_vars

SpecSingle == InitSingle /\ [][NextPool]_vars

\* every conversion entry point: one of the single-frame converters, or one
\* batch call on the GPU engine
InitConversions == InitConv \/ InitEngine

NextConversions == NextConv \/ NextEngine

SpecConversions == InitConversions /\ [][NextConversions]_vars

-----------------------------------------------------------------------------
(* Claims about the GPU engine *)

\* ceil(n / m)
CeilDiv(n, m) == (n + m - 1) \div m

\* C4: a non-empty batch of N frames with max_single_batch = M >= 1 is cut
\* into consecutive slices of M frames and a last one of N - M*(ceil(N/M)-1),
\* processed in index order (a single batch of N when N <= M); the slices
\* processed are a prefix of that list, the whole list when no slice fails, and
\* the results are then those of frames 1..N in that order.
C4_SubBatchSplitting ==
    LET N == engCall.shape.n
        M == MaxSingleBatch(engCall.shape.res[1], engCall.shape.res[2])
        count == IF N <= M THEN 1 ELSE CeilDiv(N, M)
        size(k) == IF N <= M THEN N
                   ELSE IF k < count THEN M ELSE N - M * (count - 1)
    IN  (/\ engCall.status \notin {"no_call", "panic"}
         /\ N > 0 /\ M >= 1
         /\ engCall.shape.kind \notin {"res", "big"})
        => /\ Len(engCall.subs) <= count
           /\ \A k \in 1..Len(engCall.subs) :
                 /\ engCall.subs[k].start = (k - 1) * M
                 /\ engCall.subs[k].size = size(k)
           /\ (engCall.shape.kind = "none" /\ engCall.failAt = 0)
                 => engCall.status = "ok"
           /\ engCall.status = "ok"
                 => /\ Len(engCall.subs) = count
                    /\ Len(engCall.results) = N
                    /\ \A i \in 1..N : engCall.results[i].src = i

\* C4 witness: 12 frames with max_single_batch = 5 were processed as 5, 5, 2
C4_Witness ==
    /\ engCall.status = "ok"
    /\ engCall.shape.n = 12
    /\ MaxSingleBatch(engCall.shape.res[1], engCall.shape.res[2]) = 5
    /\ Len(engCall.subs) = 3
    /\ engCall.subs[1].size = 5 /\ engCall.subs[2].size = 5 /\ engCall.subs[3].size = 2
    /\ Len(engCall.results) = 12

\* C8: a batch of one frame size with the same (batch_size, width, height) as
\* the batch converted just before it allocates no device buffer, and a batch
\* that reaches the device with a width other than the cached one allocates.
C8_BufferReuse ==
    /\ (/\ engCall.prevStatus = "ok" /\ engCall.shape.n > 0
         /\ engCall.prevKind \notin {"res", "big"}
         /\ engCall.shape.kind \notin {"res", "big"}
         /\ engCall.prevTriple = Triple(engCall.shape))
        => engine.allocs = engCall.allocsBefore
    /\ (/\ engCall.cachedBefore # None
         /\ Len(engCall.subs) >= 1
         /\ engCall.subs[1].dispatched
         /\ Triple(engCall.shape)[2] # engCall.cachedBefore[1])
        => engine.allocs > engCall.allocsBefore

\* C8 witness: the second of two identical batches was converted on the
\* buffers the first one allocated
C8_Witness ==
    /\ engCalls = 2
    /\ engCall.prevStatus = "ok"
    /\ engCall.status = "ok"
    /\ engCall.shape.n > 0
    /\ engCall.shape.kind = "none" /\ engCall.prevKind = "none"
    /\ engCall.prevTriple = Triple(engCall.shape)
    /\ engine.allocs = 1
    /\ engCall.allocsBefore = 1

\* C9 (as claimed): a batch holding frames of more than one (width, height) is
\* rejected with an error and yields no results, wherever the differing frame is.
C9_MixedBatchRejected ==
    (engCall.shape.kind \in {"res", "big"} /\ engCall.shape.n >= 2)
        => /\ engCall.status \in {"err_size_mismatch", "err_short_data", "err_gpu"}
           /\ engCall.results = <<>>

-----------------------------------------------------------------------------
(* Claims about the pooled converter *)

\* C6 (as claimed): with several converters on the global pool no other
\* caller's frame enters or drains the pending buffer between a caller's
\* add_frame and its flush, every caller receives the result of its own frame,
\* and no caller fails because its frame was flushed by someone else.
C6_ConvertAtomic ==
    \A c \in DOMAIN callers :
        /\ callers[c].pc = "flush_lock" => pool.frame_buffer = <<callers[c].frame>>
        /\ callers[c].status = "ok" => callers[c].src = callers[c].frame.id
        /\ callers[c].status # "err_batch_failed"

\* C7 (as claimed): with a single caller and a working GPU, convert of a
\* well-formed frame returns Ok with the result of that same frame, through
\* either trigger, and never the 'batch conversion failed' error.
C7_SingleCallerGetsResult ==
    \A c \in DOMAIN callers :
        (/\ callers[c].pc = "idle" /\ callers[c].calls > 0
         /\ callers[c].device
         /\ callers[c].frame.format = YUV420P
         /\ callers[c].frame.len >= FrameYuvSize(callers[c].frame.width,
                                                  callers[c].frame.height))
        => /\ callers[c].status = "ok"
           /\ callers[c].src = callers[c].frame.id

-----------------------------------------------------------------------------
(* Claims about the single-frame converters *)

\* C10 (as claimed): a 4:2:0 frame whose data is shorter than width*height*3/2
\* bytes is rejected with an error by every converter and by the GPU engine.
C10_ShortFrameRejected ==
    (/\ convOut.status # "none"
     /\ convFrame.format = YUV420P
     /\ convFrame.len < (convFrame.width * convFrame.height * 3) \div 2)
    => convOut.status \in {"err_size", "err_short_data"}

-----------------------------------------------------------------------------
(* Claims about the pipeline *)

\* what holds of the channel while the receiver is open
C1_NoFrameDropped ==
    /\ Len(chan) <= cfg.capacity
    /\ (cfg.producer = "streaming" /\ ~ReceiverClosed)
        => /\ \A i \in 1..Len(chan) : chan[i].id = obs.received + i
           /\ producer.frame_count = obs.received + Len(chan)
                                     + (IF producer.pc = "send" THEN 1 ELSE 0)
           /\ obs.sentOk = obs.received + Len(chan)
           /\ obs.failedSends = 0
           /\ obs.received = 0 => obs.sentOk <= cfg.capacity

\* a producer inside send on a full channel with the receiver open stays there
C1_BlockedOnFull ==
    (/\ cfg.producer = "streaming" /\ producer.pc = "send"
     /\ ~ReceiverClosed /\ Len(chan) = cfg.capacity)
    => /\ producer' = producer
       /\ obs'.sentOk = obs.sentOk
       /\ Len(chan') <= Len(chan)

\* C1: while the receiver is open every sampled frame is in the channel, was
\* received, or is the one being sent; the channel never holds more than its
\* capacity; a producer whose send finds the channel full takes no step until a
\* frame has been received, so with capacity 1 and no frame received exactly
\* one frame has been queued.
C1_Backpressure == []C1_NoFrameDropped /\ [][C1_BlockedOnFull]_vars

\* C1 witness: capacity 1, nothing received, one frame queued and the producer
\* inside the send of frame 2
C1_Witness ==
    /\ cfg.producer = "streaming"
    /\ cfg.capacity = 1
    /\ ~ReceiverClosed
    /\ obs.received = 0
    /\ Len(chan) = 1
    /\ obs.sentOk = 1
    /\ producer.pc = "send"
    /\ producer.cur.id = 2

\* C2 (as claimed): after the first failed send extract_frames_streaming feeds
\* no further packet to the decoder, extracts no further frame, and returns Ok.
C2_StopsAfterFailedSend ==
    (cfg.producer = "streaming" /\ obs.failedSends > 0)
    => /\ obs.fed = obs.fedAtFail
       /\ producer.frame_count = obs.countAtFail
       /\ obs.failedSends = 1
       /\ producer.pc = "done" => producer.status = "ok"

\* C3 (as claimed): a producer that saw the receiver closed returns Ok with
\* frames_processed equal to the number of frames that were sent successfully.
C3_CountsFramesSent ==
    (producer.pc = "done" /\ obs.failedSends > 0)
    => /\ producer.status = "ok"
       /\ producer.frames_processed = obs.sentOk

\* C5: in GPU mode the frames converted (and saved) so far are frames 1..k in
\* that order, each result stored under the number of the frame it was computed
\* from; the pending batch holds the frames that arrived next, in order; and
\* when the function returns Ok every frame received was converted, so N
\* arrivals give exactly 1..N.
C5_OrderPreserved ==
    cfg.mode = "wgpu"
    => /\ \A i \in 1..Len(out) : out[i].frame_number = i /\ out[i].src = i
       /\ consumer.status = "running"
            => /\ obs.received = Len(out) + Len(consumer.frame_batch)
               /\ \A j \in 1..Len(consumer.frame_batch) :
                     consumer.frame_batch[j].id = Len(out) + j
       /\ consumer.status = "ok"
            => /\ Len(out) = obs.received
               /\ consumer.processed_count = obs.received

\* C5 witness: more than twice the batch target was received, each batch was
\* cut into sub-batches by the engine, and all frames were saved
C5_Witness ==
    /\ cfg.mode = "wgpu"
    /\ cfg.output_dir
    /\ consumer.status = "ok"
    /\ obs.received > 2 * TARGET_BATCH_SIZE
    /\ MaxSingleBatch(cfg.video.res[1], cfg.video.res[2]) \in 1..(TARGET_BATCH_SIZE - 1)
    /\ Len(out) = obs.received

-----------------------------------------------------------------------------
(* Claims about the conversion results *)

\* C11: a successful conversion of a 4:2:0 frame carrying at least
\* width*height*3/2 bytes returns exactly width*height*3 bytes, for each
\* single-frame converter, for the single-frame GPU engine, and for every
\* per-frame result of a batch converted by the batch GPU engine.
C11_RgbLength ==
    /\ (/\ convOut.status = "ok"
        /\ convFrame.format = YUV420P
        /\ convFrame.len >= (convFrame.width * convFrame.height * 3) \div 2)
       => convOut.len = convFrame.width * convFrame.height * 3
    /\ engCall.status = "ok"
       => \A i \in 1..Len(engCall.results) :
             LET f == MakeBatch(engCall.shape)[i]
             IN  f.len >= (f.width * f.height * 3) \div 2
                 => engCall.results[i].len = f.width * f.height * 3

\* C11 witness: the last frame of a batch cut into sub-batches came back with
\* width*height*3 bytes
C11_Witness ==
    /\ engCall.status = "ok"
    /\ Len(engCall.subs) >= 2
    /\ engCall.shape.kind = "none"
    /\ engCall.results[engCall.shape.n].len = engCall.shape.res[1] * engCall.shape.res[2] * 3

\* C12 (as claimed): each converter the factory builds (manual, yuvutils,
\* OpenCV, FFmpeg, GPU batch converter) answers a frame whose format is not
\* 4:2:0 planar with the format error, and converts nothing.
C12_NonPlanarRejected ==
    (/\ convOut.converter \in FactoryKinds
     /\ convFrame.format # YUV420P)
    => convOut.status = "err_format"

\* C13: a convert call on the GPU engine that fails, in its first or in a
\* later sub-batch, returns its one error and no result at all; a call that
\* succeeds returns one result per frame. No call returns part of a batch.
C13_NoPartialResults ==
    /\ engCall.status # "ok" => engCall.results = <<>>
    /\ engCall.status = "ok" => Len(engCall.results) = engCall.shape.n

\* C13 witness: the second sub-batch failed on the device after the first one
\* had been converted, and the call returned nothing
C13_Witness ==
    /\ engCall.status = "err_gpu"
    /\ engCall.failAt = 2
    /\ Len(engCall.subs) = 2
    /\ engCall.subs[1].dispatched
    /\ engCall.results = <<>>

\* the errors with which the conversion of a batch fails
BatchFailures ==
    {"err_no_device", "err_gpu", "err_short_data", "err_size_mismatch", "panic"}

\* C14 (as claimed): in GPU mode the failure of one batch conversion does not
\* end process_frame_with_mode: the function never returns that batch's error.
C14_BatchFailureIsolated ==
    cfg.mode = "wgpu" => consumer.status \notin BatchFailures

\* C15, the counts: in a CPU mode every frame received so far was either
\* converted and counted or failed to convert and was skipped, and the count
\* is the number of successful conversions
C15_CountsSuccesses ==
    (cfg.mode # "wgpu" /\ consumer.status \in {"running", "ok"})
    => /\ consumer.processed_count = Len(out)
       /\ obs.received = consumer.processed_count + obs.convertErrs

\* C15, the step: a frame whose convert returns Err leaves the count alone and
\* the loop running, with the later frames still to be received
C15_SkipStep ==
    obs'.convertErrs > obs.convertErrs
    => /\ consumer'.pc = "recv"
       /\ consumer'.processed_count = consumer.processed_count
       /\ chan' = Tail(chan)

\* C15: in the CPU path a frame whose conversion returns Err is skipped and
\* not counted, the frames after it are still converted, and the returned
\* count is the number of successful conversions.
C15_FailedFrameSkipped == []C15_CountsSuccesses /\ [][C15_SkipStep]_vars

\* C15 witness: frame 1 failed to convert, frame 2 was converted after it and
\* the function returned Ok
C15_Witness ==
    /\ cfg.mode # "wgpu"
    /\ consumer.status = "ok"
    /\ obs.convertErrs = 1
    /\ consumer.processed_count >= 1
    /\ out[1].frame_number = 2

\* the errors of turning a converted frame into an image and saving it
SaveFailures == {"err_image", "err_save"}

\* C16 (as claimed): failing to encode or save one converted frame is an
\* error of that frame only: process_frame_with_mode never returns it, in the
\* CPU path or in the GPU path.
C16_SaveFailureIsolated == consumer.status \notin SaveFailures

\* the metadata extract_frames_streaming refuses
MetadataErrors == {"err_no_video", "err_duration", "err_frame_rate"}

\* C17: a file that opens but has no video track, a non-positive duration or
\* an invalid frame rate makes extract_frames_streaming return one of its
\* metadata errors with no packet fed to the decoder and no frame sent.
C17_MetadataRejected ==
    (/\ cfg.producer = "streaming"
     /\ producer.pc # "start"
     /\ cfg.video.opens
     /\ \/ ~cfg.video.hasVideo
        \/ cfg.video.duration <= 0
        \/ ~(cfg.video.rate[1] > 0 /\ cfg.video.rate[2] > 0))
    => /\ producer.pc = "done"
       /\ producer.status \in MetadataErrors
       /\ producer.frame_count = 0
       /\ obs.fed = 0
       /\ obs.sentOk = 0
       /\ obs.failedSends = 0
       /\ chan = <<>>

\* C17 witness: the run on the clip without a duration is over, the producer
\* with its error and the consumer without having received a frame
C17_Witness ==
    /\ cfg.video.duration <= 0
    /\ producer.status = "err_duration"
    /\ consumer.status = "ok"
    /\ obs.received = 0

\* C18, the bound: with max_frames > 0 at most max_frames frames are emitted
C18_AtMostMaxFrames ==
    (cfg.producer = "streaming" /\ cfg.max_frames > 0)
    => /\ producer.frame_count <= cfg.max_frames
       /\ obs.sentOk <= cfg.max_frames

\* C18, the stop: once max_frames frames are emitted no packet is fed to the
\* decoder and no frame is taken from it
C18_StopsDecoding ==
    (/\ cfg.producer = "streaming"
     /\ cfg.max_frames > 0
     /\ producer.frame_count >= cfg.max_frames)
    => /\ obs'.fed = obs.fed
       /\ producer'.decoded = producer.decoded
       /\ producer'.pkt = producer.pkt \/ producer'.pc = "done"

\* C18: with max_frames = m > 0 the producer emits at most m frames, whatever
\* sample_fps and the length of the stream, and stops decoding once m frames
\* are emitted.
C18_MaxFramesCap == []C18_AtMostMaxFrames /\ [][C18_StopsDecoding]_vars

\* C18 witness: two frames asked for at 2 samples per second, two emitted and
\* the rest of the stream left unread
C18_Witness ==
    /\ cfg.max_frames = 2
    /\ cfg.sample_fps = 2
    /\ producer.status = "ok"
    /\ producer.frame_count = 2
    /\ obs.sentOk = 2
    /\ producer.pkt <= Len(cfg.video.packets)

\* the timestamps of all frames of the video stream, in decoding order
RECURSIVE StreamTimestamps(_)
StreamTimestamps(packets) ==
    IF packets = <<>> THEN <<>>
    ELSE (IF Head(packets).video THEN Head(packets).frames ELSE <<>>)
         \o StreamTimestamps(Tail(packets))

\* how many of the frames with these timestamps pass the sampling threshold
RECURSIVE QualifyingFrames(_, _, _)
QualifyingFrames(timestamps, frame_interval, next_extract_time) ==
    IF timestamps = <<>> THEN 0
    ELSE IF frame_interval = 0 \/ Head(timestamps) >= next_extract_time
    THEN 1 + QualifyingFrames(Tail(timestamps), frame_interval,
                              next_extract_time + frame_interval)
    ELSE QualifyingFrames(Tail(timestamps), frame_interval, next_extract_time)

\* C19 (as claimed): with max_frames = 0, a run that returns Ok with every
\* send accepted has emitted every frame of the stream that passes the
\* sampling threshold; no count taken from the metadata ends it earlier.
C19_EmitsUntilEndOfStream ==
    (/\ cfg.producer = "streaming"
     /\ cfg.max_frames = 0
     /\ producer.status = "ok"
     /\ obs.failedSends = 0)
    => producer.frame_count =
          QualifyingFrames(StreamTimestamps(cfg.video.packets),
                           producer.frame_interval, 0)

\* C20, the numbering: the k-th frame the channel accepts carries frame_number k
C20_NumberedInSendOrder ==
    (cfg.producer = "streaming" /\ obs'.sentOk = obs.sentOk + 1)
    => /\ producer.cur.id = obs'.sentOk
       /\ chan' = Append(chan, producer.cur)

\* C20, the result: with every send accepted, frames_processed is the
\* frame_number of the last frame sent
C20_ResultIsLastNumber ==
    (/\ cfg.producer = "streaming"
     /\ producer.status = "ok"
     /\ obs.failedSends = 0)
    => producer.frames_processed = obs.sentOk

\* C20: the frames sent carry frame_number 1, 2, 3, ... in send order, and
\* while the receiver stays open the returned frames_processed is the
\* frame_number of the last frame sent.
C20_FrameNumbers == [][C20_NumberedInSendOrder]_vars /\ []C20_ResultIsLastNumber

\* C20 witness: four frames were sent, all accepted, and the producer
\* returned 4
C20_Witness ==
    /\ cfg.producer = "streaming"
    /\ producer.status = "ok"
    /\ obs.failedSends = 0
    /\ obs.sentOk = 4
    /\ producer.frames_processed = 4

\* C21 (as claimed): the buffer get_buffer hands out is empty and its
\* capacity is at least required_size, whatever was acquired before and
\* however large required_size is.
C21_BufferFitsRequest ==
    buffer.n > 0
    => /\ buffer.got.len = 0
       /\ buffer.got.capacity >= buffer.required_size

\* C22 (as claimed): once the cursor has gone round the ring, an acquisition
\* of at most the preallocated slot size is served from capacity the ring
\* kept and allocates nothing.
C22_NoAllocationAfterCycle ==
    (/\ buffer.n > Len(framePool.buffers)
     /\ \E size \in SlotSizes : buffer.required_size <= size)
    => /\ buffer.allocations = 0
       /\ buffer.taken.capacity >= buffer.required_size

\* C23 (as claimed): the RGBA output and staging buffers of every sub-batch
\* the engine dispatches, and so its smaller Y, U and V buffers, are at most
\* GPU_BUFFER_LIMIT bytes, whatever batch is handed to convert_yuv420p_to_rgb.
C23_BuffersWithinLimit ==
    /\ engine.read_size <= GPU_BUFFER_LIMIT
    /\ \A k \in 1..Len(engCall.subs) :
          engCall.subs[k].dispatched
          => LET first == MakeBatch(engCall.shape)[engCall.subs[k].start + 1]
             IN  FrameOutputSize(first.width, first.height) * engCall.subs[k].size
                    <= GPU_BUFFER_LIMIT

\* C24, the states: in GPU mode the pending list stays below the target
\* between two turns of the loop, no list handed to process_frame_batch is
\* empty or longer than the target, and when the function returns Ok every
\* frame received was handed over once, converted once, and counted
C24_AccumulatorBounded ==
    cfg.mode = "wgpu"
    => /\ Len(consumer.frame_batch) <= TARGET_BATCH_SIZE
       /\ consumer.status = "running" => Len(consumer.frame_batch) < TARGET_BATCH_SIZE
       /\ obs.flushes > 0 => obs.lastFlush \in 1..TARGET_BATCH_SIZE
       /\ consumer.status = "ok"
          => /\ obs.handed = obs.received
             /\ consumer.processed_count = obs.received
             /\ Len(out) = obs.received
             /\ \A i \in 1..Len(out) : out[i].frame_number = i /\ out[i].src = i

\* C24, the steps: a list is handed over only when the frame just received
\* brings it to the target, or when the channel is closed and empty and the
\* list is not
C24_FlushStep ==
    obs'.flushes > obs.flushes
    => /\ obs'.flushes = obs.flushes + 1
       /\ \/ /\ obs'.received = obs.received + 1
             /\ Len(consumer.frame_batch) + 1 = TARGET_BATCH_SIZE
             /\ obs'.lastFlush = TARGET_BATCH_SIZE
          \/ /\ obs'.received = obs.received
             /\ chan = <<>> /\ SenderClosed
             /\ consumer.frame_batch # <<>>
             /\ obs'.lastFlush = Len(consumer.frame_batch)

\* C24: the GPU-mode accumulator of process_frame_with_mode flushes exactly
\* when the pending list reaches the target size or the channel is closed with
\* a non-empty list; on Ok every received frame went to the engine once and
\* the returned count is the number of frames received.
C24_AccumulatorFlushes == []C24_AccumulatorBounded /\ [][C24_FlushStep]_vars

\* C24 witness: 130 frames went through as 64 + 64 + 2 and the function
\* returned Ok(130)
C24_Witness ==
    /\ cfg.mode = "wgpu"
    /\ consumer.status = "ok"
    /\ obs.received = 2 * TARGET_BATCH_SIZE + 2
    /\ obs.flushes = 3
    /\ obs.lastFlush = 2
    /\ consumer.processed_count = obs.received

\* C29 (as claimed): one GPU-mode run builds at most one engine and allocates
\* at most one device buffer set, however many batches it converts.
C29_OneEngineOneBufferSet ==
    cfg.mode = "wgpu" => obs.engines <= 1 /\ obs.bufferSets <= 1

\* C25 (as claimed): no frame stays in the pool's frame_buffer for longer than
\* max_wait_time: once the oldest buffered frame has waited that long the
\* batch is processed.
C25_BoundedLatency ==
    pool.frame_buffer # <<>> => pool.waited <= MaxWaitTicks

\* C26 (as claimed): a frame filled with Y = 235, U = 128, V = 128 comes out
\* of the manual converter with every R, G and B byte in 250..255.
C26_WhiteClampsHigh ==
    (/\ convOut.status = "ok"
     /\ convOut.fill = [y |-> 235, u |-> 128, v |-> 128])
    => /\ convOut.pixel.r \in 250..255
       /\ convOut.pixel.g \in 250..255
       /\ convOut.pixel.b \in 250..255

\* C27, the drain: a conversion task that returns Ok has seen the sender
\* dropped and has received every frame that was sent
C27_DrainsBeforeClose ==
    consumer.status = "ok"
    => /\ SenderClosed
       /\ chan = <<>>
       /\ obs.received = obs.sentOk

\* C27: run_single_mode cannot deadlock: whichever task ends first, the other
\* one ends too; the consumer drains what was sent before it sees the close,
\* and no send waits forever on a receiver that is gone.
C27_NoDeadlock ==
    /\ []C27_DrainsBeforeClose
    /\ <>(producer.pc = "done" /\ consumer.pc = "done")

\* C27 witness: the conversion task ended first, with an error, a send of the
\* extraction task failed on the dropped receiver, and that task returned too
C27_Witness ==
    /\ consumer.pc = "done"
    /\ consumer.status # "ok"
    /\ obs.failedSends >= 1
    /\ producer.pc = "done"
    /\ producer.status = "ok"

\* C28 (as claimed): after every successful batch the engine's cached
\* (batch_size, width, height) is that of the batch process_batch converted
\* last, also when that batch is smaller than the one before it.
C28_CachedTripleIsLastBatch ==
    (engCall.status = "ok" /\ engCall.shape.n > 0)
    => LET last == engCall.subs[Len(engCall.subs)]
           first == MakeBatch(engCall.shape)[last.start + 1]
       IN  /\ engine.capacity = last.size
           /\ engine.cached_size = <<first.width, first.height>>

\* C30 (as claimed): a call that splits its batch hands every sub-batch to
\* process_batch, also after an earlier sub-batch has failed.
C30_AllSubBatchesAttempted ==
    LET N == engCall.shape.n
        first == MakeBatch(engCall.shape)[1]
        M == MaxSingleBatch(first.width, first.height)
    IN  (/\ engCall.status \notin {"no_call", "panic"}
         /\ N > 0
         /\ M >= 1
         /\ N > M)
        => Len(engCall.subs) = SubBatches(N, M)

-----------------------------------------------------------------------------
(* C31: a device acquisition failure is surfaced by the construction of the
   pool, before a frame is accepted, and the acquisition is never attempted
   again: a pool that holds a frame has a processor, and a pool never gets
   a processor after its construction *)
C31_DeviceFailureSurfaced ==
    /\ [](pool.frame_buffer # <<>> => pool.processor)
    /\ [][pool'.processor => pool.processor]_vars
\* the sampling interval of a run, in ticks: 1/sample_fps, or
\* duration/max_frames when sample_fps = 0 and max_frames > 0
C32_Interval ==
    IF cfg.sample_fps > 0 THEN cfg.video.tps \div cfg.sample_fps
    ELSE IF cfg.max_frames > 0 THEN cfg.video.duration \div cfg.max_frames
    ELSE 0

\* C32, the threshold: it starts at 0 and after k emissions it is k intervals
C32_ThresholdIsCountTimesInterval ==
    cfg.producer = "streaming"
    => producer.next_extract_time = producer.frame_count * C32_Interval

\* C32, the decision: the frame the loop looks at is emitted iff the interval
\* is 0 or its timestamp has reached the threshold; an emission moves the
\* threshold by one interval and no other step moves it
C32_SampleStep ==
    IF /\ cfg.producer = "streaming"
       /\ producer.pc = "receive"
       /\ producer' # producer
       /\ producer.decoded # <<>>
       /\ producer.frame_count < producer.final_output_frames
    THEN LET timestamp == Head(producer.decoded)
             emitted == producer'.pc = "send"
         IN  /\ emitted <=> (C32_Interval = 0
                                \/ timestamp >= producer.next_extract_time)
             /\ producer'.decoded = Tail(producer.decoded)
             /\ emitted =>
                   /\ producer'.frame_count = producer.frame_count + 1
                   /\ producer'.cur.id = producer.frame_count + 1
                   /\ timestamp >= producer.frame_count * C32_Interval
                   /\ producer'.next_extract_time =
                          producer.next_extract_time + C32_Interval
             /\ ~emitted =>
                   /\ producer'.frame_count = producer.frame_count
                   /\ producer'.next_extract_time = producer.next_extract_time
    ELSE cfg.producer = "streaming"
         => /\ producer'.next_extract_time = producer.next_extract_time
            /\ producer'.frame_count = producer.frame_count

C33_MaxSingleBatchExact ==
    LET N == engCall.shape.n
        first == MakeBatch(engCall.shape)[1]
        claimed == (9 * GPU_BUFFER_LIMIT) \div (10 * (first.width * first.height * 4))
    IN  (engCall.status \notin {"no_call", "panic"} /\ N > 0)
        => engCall.subs[1].size = Min(N, claimed)

-----------------------------------------------------------------------------
(* Claims about the MP4 bitstream converter *)

\* the places in the Annex B output that hold a unit of this type
UnitsOfType(annexb, nal_type) ==
    { i \in 1..Len(annexb) : annexb[i].unit.nal_type = nal_type }

\* C34, the parameter sets: an IDR slice that starts a picture has an SPS and
\* a PPS between it and the IDR slice before it (or the start of the output)
C34_IdrHasParameterSets ==
    LET annexb == packetCall.annexb
        idrs == UnitsOfType(annexb, "IdrSlice")
    IN  \A i \in idrs :
           annexb[i].unit.first_mb
           => LET before == { j \in idrs : j < i }
                  since == IF before = {} THEN 0
                           ELSE CHOOSE j \in before : \A k \in before : k <= j
              IN  /\ \E k \in UnitsOfType(annexb, "Sps") : since < k /\ k < i
                  /\ \E k \in UnitsOfType(annexb, "Pps") : since < k /\ k < i

\* C34, the units of the input: those written so far are the first units
\* handed in, once each and in order, each behind a start code, and a call
\* that has returned has written all of them
C34_InputWrittenInOrder ==
    LET fromStream == SelectSeq(packetCall.annexb, LAMBDA w : w.from = "stream")
    IN  /\ \A i \in 1..Len(fromStream) : fromStream[i].unit.n = i
        /\ \A i \in 1..Len(packetCall.annexb) :
              packetCall.annexb[i].start_code = <<0, 0, 1>>
        /\ Len(fromStream) + Len(packetCall.stream) = packetCall.nals
        /\ packetCall.pc = "idle" => Len(fromStream) = packetCall.nals

\* C34 (as claimed): for any sequence of packets, every IDR slice written is
\* preceded, since the IDR picture before it or the start of the stream, by
\* an SPS and a PPS, from the stream or from the header, and every unit of
\* the input is written once, in order, behind a 00 00 01 start code.
C34_AnnexBWellFormed == C34_IdrHasParameterSets /\ C34_InputWrittenInOrder

\* C36, one turn: a turn of the loop of convert_packet leaves fewer bytes in
\* the remaining stream than it found
C36_TurnConsumes ==
    (packetCall.pc = "loop" /\ packetCall.stream # <<>> /\ packetCall' # packetCall)
    => StreamBytes(packetCall'.stream, bsf.length_size)
          < StreamBytes(packetCall.stream, bsf.length_size)

\* C36 (as claimed): convert_packet returns for every packet, each turn of
\* its loop consuming at least one byte of the remaining stream, also when
\* the length prefix of a unit is zero.
C36_ConvertPacketTerminates ==
    /\ [][C36_TurnConsumes]_vars
    /\ (packetCall.pc = "loop") ~> (packetCall.pc = "idle")

-----------------------------------------------------------------------------
(* Further claims about the GPU engine *)

\* C35 (as claimed): for every non-empty batch the engine computes a
\* per-frame output size above zero and a max_single_batch of at least 1, so
\* that no division by zero occurs and every sub-batch holds a frame.
C35_SubBatchSizePositive ==
    LET N == engCall.shape.n
        first == MakeBatch(engCall.shape)[1]
    IN  (engCall.status # "no_call" /\ N > 0)
        => /\ FrameOutputSize(first.width, first.height) > 0
           /\ MaxSingleBatch(first.width, first.height) >= 1
           /\ engCall.status # "panic"
           /\ \A i \in 1..Len(engCall.subs) : engCall.subs[i].size >= 1

-----------------------------------------------------------------------------
(* Further claims about the single-frame converters *)

\* C37 (as claimed): for every frame that passes ManualConverter's length
\* check, y_idx < y_size and uv_idx = (y/2)*(width/2) + x/2 < y_size/4 at every
\* pixel, odd sizes and 1x1 included, and convert does not panic.
C37_ManualIndicesInBounds ==
    (/\ convOut.converter = "manual"
     /\ convFrame.format = YUV420P
     /\ convFrame.len >= RequiredLen(convFrame.width, convFrame.height))
    => /\ \A y \in 0..(convFrame.height - 1) : \A x \in 0..(convFrame.width - 1) :
             /\ y * convFrame.width + x < convFrame.width * convFrame.height
             /\ (y \div 2) * (convFrame.width \div 2) + (x \div 2)
                    < (convFrame.width * convFrame.height) \div 4
       /\ convOut.status # "panic"

\* C38 (as claimed): at every convert call of FfmpegConverter the scaling
\* context in use was created for the width, height and format of the frame
\* being converted, whatever frames were converted before it.
C38_ScalerMatchesFrame ==
    convOut.converter = "ffmpeg"
    => scaler = <<convFrame.width, convFrame.height, convFrame.format>>

-----------------------------------------------------------------------------
(* Further claims about the pooled converter *)

\* C39: with a single caller the pending buffer of the pool is empty whenever
\* convert is not running, after a success and after an error alike, it never
\* holds more than the caller's one frame, and the engine of the pool has never
\* been handed a batch of more than one frame, whatever batch_size is.
C39_SingleCallerSingleFrame ==
    /\ \A c \in DOMAIN callers : callers[c].pc = "idle" => pool.frame_buffer = <<>>
    /\ Len(pool.frame_buffer) <= 1
    /\ pool.eng.capacity <= 1

\* C39 witness: on a pool with batch_size 8 the caller's second convert,
\* handed to the engine by flush as a batch of one frame, failed in the
\* readback; the frame of the failed batch is gone from frame_buffer
C39_Witness ==
    /\ DOMAIN callers = {1}
    /\ pool.batch_size = GlobalBatchSize
    /\ callers[1].pc = "idle"
    /\ callers[1].calls = 2
    /\ callers[1].status = "err_gpu"
    /\ callers[1].via = "flush"
    /\ pool.eng.capacity = 1
    /\ pool.frame_buffer = <<>>
-----------------------------------------------------------------------------
(* Further claims about the frame pool *)

\* C40 (as claimed): whenever extract_yuv_data_optimized sets the length of
\* a buffer, on the 4:2:0 path and on the path of the other formats, the new
\* length is at most the capacity of the buffer, for every size and every
\* position of the cursor of the pool.
C40_SetLenWithinCapacity ==
    buffer.n > 0 => buffer.frame_data.len <= buffer.frame_data.capacity


=============================================================================
